---- MODULE Spec2Model ----
(***************************************************************************)
(* A model of condor.py: the Job object that accumulates submission        *)
(* settings, serialises them into a Condor submit description, submits it  *)
(* and polls / waits on the resulting cluster id, the Process object that *)
(* wraps a child process and its pipes, and the Shell that runs a command  *)
(* through a Process to its end or interactively.                          *)
(*                                                                         *)
(* Python strings that the code searches, counts, splits or formats are    *)
(* modelled as sequences of one-character strings, so that these are       *)
(* computed the way the code computes them; the characters are those of   *)
(* chr(0)..chr(255), which are all that a child's output is decoded to,    *)
(* and two characters a user can type that str.lower() maps into them,     *)
(* written by their code points: "U+212A", the Kelvin sign, and "U+212B",  *)
(* the Angstrom sign.                                                      *)
(* The submit text is kept as                                              *)
(* the sequence of its "\n"-terminated lines (every piece the code appends *)
(* to it ends with "\n"), each line a string without its "\n".  Times are  *)
(* counted in half seconds (the poll interval starts at 1.0 and grows by   *)
(* 0.5, both exact multiples of 0.5).                                      *)
(***************************************************************************)
EXTENDS Integers, Sequences, FiniteSets, TLC

VARIABLES
    settings,           \* Job._settings: the dict, as <<key, value>> pairs in insertion order
    submitLinesSoFar,   \* Job.submitLinesSoFar: the accumulated submit text, as its lines
    executablePath,     \* Job._executablePath
    cluster,            \* Job.cluster: None or the parsed cluster number
    maxPollTime,        \* Job.maxPollTime, in half seconds
    pc,                 \* "idle", or "wait" while wait() is inside its loop
    currPollTime,       \* wait(): local currPollTime, in half seconds
    polled,             \* wait(): the (retval, msg) replies of the queue queries it issued
    sleeps,             \* wait(): the durations it slept, in half seconds
    last,               \* outcome of the most recent call on the Job or the Process
    proc                \* the Process object a caller holds, NoProcess before it makes one

vars == <<settings, submitLinesSoFar, executablePath, cluster, maxPollTime,
          pc, currPollTime, polled, sleeps, last, proc>>

----------------------------------------------------------------------------
(* Bounds of the model *)

\* wait(): the scheduler lists the cluster for fewer than MaxRounds queries
MaxRounds == 3
\* the accumulated submit text holds at most MaxLines lines
MaxLines == 8
\* a caller of the optional setters keeps at most MaxOptional optional
\* attributes, other than the three resource requests, set at a time
MaxOptional == 1
\* a caller writes at most MaxWritten characters to the input of a process
MaxWritten == 2
\* the output that finish() saves in a Process holds at most MaxSaved characters
MaxSaved == 9

----------------------------------------------------------------------------
(* Program constants *)

\* self.cluster = None
None == -1
\* currPollTime = 1.0, in half seconds
InitialPollTime == 2
\* currPollTime += 0.5, in half seconds
PollTimeStep == 1
\* self.maxPollTime = 30.0, in half seconds
DefaultMaxPollTime == 60
\* self.setCPUNum(1); self.setRAM(1024); self.setDiskSpace(32)
DefaultCPUNum == 1
DefaultRAM == 1024
DefaultDiskSpace == 32

\* mutant: the last universe of the list is left out
validUniversesButLast ==
    { <<"v","a","n","i","l","l","a">>, <<"s","t","a","n","d","a","r","d">>,
      <<"j","a","v","a">>, <<"s","c","h","e","d","u","l","e","r">>,
      <<"l","o","c","a","l">>, <<"g","r","i","d">> }

\* self._validUniverses
validUniverses ==
    { <<"v","a","n","i","l","l","a">>, <<"s","t","a","n","d","a","r","d">>,
      <<"j","a","v","a">>, <<"s","c","h","e","d","u","l","e","r">>,
      <<"l","o","c","a","l">>, <<"g","r","i","d">>, <<"v","m">> }

K_Universe == "Universe"
K_request_cpus == "request_cpus"
K_request_memory == "request_memory"
K_request_disk == "request_disk"
K_notify_user == "notify_user"
K_Executable == "Executable"
K_Arguments == "Arguments"
K_transfer_executable == "transfer_executable"
K_initialdir == "initialdir"
K_Input == "Input"
K_Output == "Output"
K_Error == "Error"
K_Log == "Log"
K_Requirements == "Requirements"
K_should_transfer_files == "should_transfer_files"
\* the key that setWhenTransferOutput writes
K_when_to_transfer_output == "when_to_transfer_output"
\* the key that getWhenTransferOutput reads
K_when_to_transfer_ouput == "when_to_transfer_ouput"
K_notification == "notification"
K_concurrency_limits == "concurrency_limits"

----------------------------------------------------------------------------
(* Python string primitives *)

Digits == <<"0","1","2","3","4","5","6","7","8","9">>
IsDigit(c) == \E i \in 1..10 : Digits[i] = c
DigitValue(c) == (CHOOSE i \in 1..10 : Digits[i] = c) - 1
\* the characters str.strip() removes: "\t", "\n", chr(11), "\f", "\r",
\* chr(28)..chr(31), " ", chr(133) and chr(160)
Whitespace == {"\t", "\n", "", "\f", "\r", "", "", "", "", " ", "", " "}
\* the characters int() skips around a number: "\t", "\n", chr(11), "\f",
\* "\r", " ", chr(133) and chr(160)
IntWhitespace == {"\t", "\n", "", "\f", "\r", " ", "", " "}

\* str(n) for an int n
RECURSIVE IntToStr(_)
IntToStr(n) == IF n < 0 THEN <<"-">> \o IntToStr(0 - n)
               ELSE IF n < 10 THEN <<Digits[n + 1]>>
               ELSE IntToStr(n \div 10) \o <<Digits[(n % 10) + 1]>>

\* int(s) for a string of decimal digits
RECURSIVE StrToInt(_)
StrToInt(s) == IF Len(s) = 0 THEN 0
               ELSE 10 * StrToInt(SubSeq(s, 1, Len(s) - 1)) + DigitValue(s[Len(s)])

\* s[i:].startswith(sub)
StartsAt(s, sub, i) ==
    /\ i + Len(sub) - 1 <= Len(s)
    /\ \A j \in 1..Len(sub) : s[i + j - 1] = sub[j]

\* sub in s
Contains(s, sub) == \E i \in 1..(Len(s) + 1) : StartsAt(s, sub, i)

\* s.count(sub): non-overlapping occurrences, scanning from the left
RECURSIVE CountFrom(_, _, _)
CountFrom(s, sub, i) ==
    LET found == { j \in i..Len(s) : StartsAt(s, sub, j) }
        first == CHOOSE j \in found : \A k \in found : j <= k
    IN  IF found = {} THEN 0 ELSE 1 + CountFrom(s, sub, first + Len(sub))
Count(s, sub) == CountFrom(s, sub, 1)

\* s.strip()
RECURSIVE LStrip(_)
LStrip(s) == IF Len(s) > 0 /\ s[1] \in Whitespace THEN LStrip(Tail(s)) ELSE s
RECURSIVE RStrip(_)
RStrip(s) == IF Len(s) > 0 /\ s[Len(s)] \in Whitespace
             THEN RStrip(SubSeq(s, 1, Len(s) - 1)) ELSE s
Strip(s) == RStrip(LStrip(s))

\* s.lower(): the letters A-Z and the capital letters of chr(192)..chr(222)
\* go to their small letters, the Kelvin sign to k and the Angstrom sign to
\* chr(229), every other character stays
Lower(string) ==
    LET UpperCase == <<"A","B","C","D","E","F","G","H","I","J","K","L","M","N",
                       "O","P","Q","R","S","T","U","V","W","X","Y","Z","À","Á",
                       "Â","Ã","Ä","Å","Æ","Ç","È","É","Ê","Ë","Ì","Í","Î","Ï",
                       "Ð","Ñ","Ò","Ó","Ô","Õ","Ö","Ø","Ù","Ú","Û","Ü","Ý","Þ",
                       "U+212A","U+212B">>
        LowerCase == <<"a","b","c","d","e","f","g","h","i","j","k","l","m","n",
                       "o","p","q","r","s","t","u","v","w","x","y","z","à","á",
                       "â","ã","ä","å","æ","ç","è","é","ê","ë","ì","í","î","ï",
                       "ð","ñ","ò","ó","ô","õ","ö","ø","ù","ú","û","ü","ý","þ",
                       "k","å">>
    IN  [i \in 1..Len(string) |->
            IF \E k \in 1..58 : UpperCase[k] = string[i]
            THEN LowerCase[CHOOSE k \in 1..58 : UpperCase[k] = string[i]]
            ELSE string[i]]

----------------------------------------------------------------------------
(* The settings dict *)

StrVal(s) == [str |-> s]
IntVal(n) == [int |-> n]
BoolVal(b) == [bool |-> b]

\* str(value) of a settings value
PyStr(v) == IF "str" \in DOMAIN v THEN v.str
            ELSE IF "int" \in DOMAIN v THEN IntToStr(v.int)
            ELSE IF v.bool THEN <<"T","r","u","e">> ELSE <<"F","a","l","s","e">>

\* key in d
DictHas(d, k) == \E i \in 1..Len(d) : d[i][1] = k
\* d[key]
DictGet(d, k) == d[CHOOSE i \in 1..Len(d) : d[i][1] = k][2]
\* d.pop(key) of a key in d: the dict without it
DictPop(d, k) == SelectSeq(d, LAMBDA entry : entry[1] # k)
\* d[key] = value
DictSet(d, k, v) ==
    IF DictHas(d, k)
    THEN [i \in 1..Len(d) |-> IF d[i][1] = k THEN <<k, v>> ELSE d[i]]
    ELSE Append(d, <<k, v>>)

----------------------------------------------------------------------------
(* Inputs: what the caller passes and what the external commands reply *)

Vanilla == <<"v","a","n","i","l","l","a">>
\* setUniverse arguments: a valid universe and one that is not
UniverseArgs == { <<"j","a","v","a">>, <<"m","a","r","s">> }
\* address found in the mail map at construction, when the map can be read
MappedEmail == <<"k","o","l","l","e","r","g","1","4","@","m","a","i","l",".","w","l","u",".","e","d","u">>
\* maxPollTime values a caller configures, in half seconds (1.0 and 30.0)
MaxPollTimeArgs == { 2, DefaultMaxPollTime }
\* exit code of "cat /mnt/config/scripts/mail_map.pickle" at construction:
\* the mail map is not readable
MailMapStatus == 1
\* exit codes of an external command
ExitCodes == { 0, 1 }
\* replies of condor_submit, as Shell.execute returns them (stripped)
SubmitReplies ==
    { <<"c","l","u","s","t","e","r"," ","4","2",".">>,
      <<"c","l","u","s","t","e","r"," ","0">>,
      <<"c","l","u","s","t","e","r"," ","x"," ","c","l","u","s","t","e","r"," ","4","2",
        " ","c","l","u","s","t","e","r"," ","9">>,
      <<"S","u","b","m","i","t","t","i","n","g"," ","j","o","b","(","s",")",".">> }
\* replies of condor_q, as Shell.execute returns them (stripped)
QueueReplies ==
    { <<>>,
      <<"4","2",".","0","\n","4","2",".","1">>,
      <<"1","4","2">> }

----------------------------------------------------------------------------
(* Job: construction, setters and the submit text *)

\* a constructor that sets the universe and no default
JobInitBare(universe, mailMapStatus) == DictSet(<<>>, K_Universe, StrVal(universe))

\* Job.__init__: setUniverse, setCPUNum(1), setRAM(1024), setDiskSpace(32), setEmail(None)
JobInit(universe, mailMapStatus) ==
    LET s1 == DictSet(<<>>, K_Universe, StrVal(universe))
        s2 == DictSet(s1, K_request_cpus, IntVal(DefaultCPUNum))
        s3 == DictSet(s2, K_request_memory, IntVal(DefaultRAM))
        s4 == DictSet(s3, K_request_disk, IntVal(DefaultDiskSpace))
    IN  IF mailMapStatus = 0 THEN DictSet(s4, K_notify_user, StrVal(MappedEmail))
        ELSE s4

\* a sequence of characters as one string
RECURSIVE Text(_)
Text(chars) == IF Len(chars) = 0 THEN "" ELSE chars[1] \o Text(Tail(chars))

\* the loop of _generateSubmitString: str(s) + " = " + str(self._settings[s]) + "\n"
\* for every key s, in the order of the dict
SettingsLines(d) == [i \in 1..Len(d) |-> d[i][1] \o " = " \o Text(PyStr(d[i][2]))]

\* _generateSubmitString: the returned allLines
generateSubmitString(lines, d) == lines \o SettingsLines(d)

NumLines(text) == Len(text)

\* outcome of a call: the exception raised ("" when it returned), the value
\* returned (<<>> for None), the number of condor_q queries it issued, the
\* (exit code, reply) of the scheduler command it was run against, and the
\* number of lines it appended to the submit text; arg is what it was called
\* with, <<>> for a call without arguments
Outcome(op, exc, ret, queries, io, added) ==
    [op |-> op, exc |-> exc, ret |-> ret, queries |-> queries, io |-> io,
     added |-> added, arg |-> <<>>]

\* outcome of a call that was passed arg
OutcomeOf(op, arg, exc, ret, queries, io, added) ==
    [Outcome(op, exc, ret, queries, io, added) EXCEPT !.arg = arg]

\* no Process object has been made
NoProcess == [made |-> FALSE]

Init ==
    /\ settings = JobInit(Vanilla, MailMapStatus)
    /\ submitLinesSoFar = <<>>
    /\ executablePath = <<>>
    /\ cluster = None
    /\ maxPollTime = DefaultMaxPollTime
    /\ pc = "idle"
    /\ currPollTime = InitialPollTime
    /\ polled = <<>>
    /\ sleeps = <<>>
    /\ last = Outcome("init", "", <<>>, 0, <<>>, 0)
    /\ proc = NoProcess

\* the locals of wait() do not outlive the call
ClearWait ==
    /\ currPollTime' = InitialPollTime
    /\ polled' = <<>>
    /\ sleeps' = <<>>

\* Job.setUniverse
setUniverse(string) ==
    /\ pc = "idle"
    /\ UNCHANGED proc
    /\ IF string \notin validUniverses
       THEN /\ last' = OutcomeOf("setUniverse", string, "InvalidUniverseError", <<>>, 0, <<>>, 0)
            /\ UNCHANGED settings
       ELSE /\ settings' = DictSet(settings, K_Universe, StrVal(string))
            /\ last' = OutcomeOf("setUniverse", string, "", <<>>, 0, <<>>, 0)
    /\ ClearWait
    /\ UNCHANGED <<submitLinesSoFar, executablePath, cluster, maxPollTime, pc>>

\* assignment to the public attribute Job.maxPollTime
setMaxPollTime(t) ==
    /\ pc = "idle"
    /\ UNCHANGED proc
    /\ maxPollTime' = t
    /\ last' = Outcome("setMaxPollTime", "", <<>>, 0, <<>>, 0)
    /\ ClearWait
    /\ UNCHANGED <<settings, submitLinesSoFar, executablePath, cluster, pc>>

\* mutant: the dict is never cleared
clearedSettingsNever(d, update) == d

\* mutant: the dict is cleared whatever update is
clearedSettingsAlways(d, update) == <<>>

\* _generateSubmitString: what "if update: self._settings.clear()" leaves of the dict
clearedSettings(d, update) == IF update THEN <<>> ELSE d

\* _generateSubmitString: what "if update: self.submitLinesSoFar = allLines" leaves
updatedLines(lines, allLines, update) == IF update THEN allLines ELSE lines

\* Job._generateSubmitString(update) called on its own
flush(update) ==
    /\ pc = "idle"
    /\ UNCHANGED proc
    /\ LET allLines == generateSubmitString(submitLinesSoFar, settings)
       IN  /\ NumLines(allLines) <= MaxLines
           /\ settings' = clearedSettings(settings, update)
           /\ submitLinesSoFar' = updatedLines(submitLinesSoFar, allLines, update)
           /\ last' = Outcome(IF update THEN "flush" ELSE "peek", "", allLines, 0, <<>>,
                              IF update THEN Len(settings) ELSE 0)
    /\ ClearWait
    /\ UNCHANGED <<executablePath, cluster, maxPollTime, pc>>

\* Job.saveSubmitFile: writes _generateSubmitString(False) to the file
saveSubmitFile ==
    /\ pc = "idle"
    /\ UNCHANGED proc
    /\ LET allLines == generateSubmitString(submitLinesSoFar, settings)
       IN  /\ settings' = clearedSettings(settings, FALSE)
           /\ submitLinesSoFar' = updatedLines(submitLinesSoFar, allLines, FALSE)
           /\ last' = Outcome("saveSubmitFile", "", allLines, 0, <<>>, 0)
    /\ ClearWait
    /\ UNCHANGED <<executablePath, cluster, maxPollTime, pc>>

----------------------------------------------------------------------------
(* Job: the getters and setters of the attributes *)

\* the keys of the optional attributes other than the resource requests
OptionalKeys ==
    { K_initialdir, K_Input, K_Output, K_Error, K_Log, K_Requirements,
      K_should_transfer_files, K_when_to_transfer_output, K_transfer_executable,
      K_notification, K_notify_user, K_concurrency_limits }

\* the number of entries of d under one of these keys
NumOptional(d) == Cardinality({ i \in 1..Len(d) : d[i][1] \in OptionalKeys })

\* a getter: "try: return self._settings[key]; except KeyError: raise missing(...)"
getSetting(op, key, missing) ==
    /\ pc = "idle"
    /\ UNCHANGED proc
    /\ last' = IF DictHas(settings, key)
               THEN Outcome(op, "", <<DictGet(settings, key)>>, 0, <<>>, 0)
               ELSE Outcome(op, missing, <<>>, 0, <<>>, 0)
    /\ ClearWait
    /\ UNCHANGED <<settings, submitLinesSoFar, executablePath, cluster, maxPollTime, pc>>

\* a setter: "self._settings[key] = value"
setSetting(op, arg, key, value) ==
    /\ pc = "idle"
    /\ UNCHANGED proc
    /\ settings' = DictSet(settings, key, value)
    /\ NumOptional(settings') <= MaxOptional
    /\ last' = OutcomeOf(op, arg, "", <<>>, 0, <<>>, 0)
    /\ ClearWait
    /\ UNCHANGED <<submitLinesSoFar, executablePath, cluster, maxPollTime, pc>>

\* a call that changes nothing: it raises exc, or returns None when exc is ""
noEffect(op, arg, exc) ==
    /\ pc = "idle"
    /\ UNCHANGED proc
    /\ last' = OutcomeOf(op, arg, exc, <<>>, 0, <<>>, 0)
    /\ ClearWait
    /\ UNCHANGED <<settings, submitLinesSoFar, executablePath, cluster, maxPollTime, pc>>

\* int(s): s without the whitespace int() skips at both ends
RECURSIVE IntStrip(_)
IntStrip(s) == IF Len(s) > 0 /\ s[1] \in IntWhitespace THEN IntStrip(Tail(s))
               ELSE IF Len(s) > 0 /\ s[Len(s)] \in IntWhitespace
               THEN IntStrip(SubSeq(s, 1, Len(s) - 1))
               ELSE s

\* int(s): whether s, without whitespace and sign, is a decimal number:
\* digits, with single underscores between them
IsDecimal(s) ==
    /\ Len(s) > 0
    /\ \A i \in 1..Len(s) : IsDigit(s[i]) \/ s[i] = "_"
    /\ IsDigit(s[1])
    /\ IsDigit(s[Len(s)])
    /\ \A i \in 1..(Len(s) - 1) : ~(s[i] = "_" /\ s[i + 1] = "_")

\* int(x) of an int, a bool or a string: the value val, or exc = "ValueError"
\* for a string that is no number
pyInt(v) ==
    IF "int" \in DOMAIN v THEN [exc |-> "", val |-> v.int]
    ELSE IF "bool" \in DOMAIN v THEN [exc |-> "", val |-> IF v.bool THEN 1 ELSE 0]
    ELSE LET stripped == IntStrip(v.str)
             signed == Len(stripped) > 0 /\ stripped[1] \in {"+", "-"}
             number == IF signed THEN Tail(stripped) ELSE stripped
             value == StrToInt(SelectSeq(number, LAMBDA c : c # "_"))
         IN  IF ~IsDecimal(number) THEN [exc |-> "ValueError", val |-> 0]
             ELSE [exc |-> "", val |-> IF signed /\ stripped[1] = "-" THEN 0 - value ELSE value]

\* setCPUNum, setRAM, setDiskSpace: self._settings[key] = int(value), which
\* raises ValueError before anything is stored
setIntSetting(op, arg, key) ==
    IF pyInt(arg).exc # "" THEN noEffect(op, arg, pyInt(arg).exc)
    ELSE setSetting(op, arg, key, IntVal(pyInt(arg).val))

getUniverse == getSetting("getUniverse", K_Universe, "RequiredSetting")

getInitialDirectory == getSetting("getInitialDirectory", K_initialdir, "EmptySetting")
setInitialDirectory(string) ==
    setSetting("setInitialDirectory", string, K_initialdir, StrVal(string))

getInput == getSetting("getInput", K_Input, "EmptySetting")
setInput(string) == setSetting("setInput", string, K_Input, StrVal(string))

getOutput == getSetting("getOutput", K_Output, "EmptySetting")
setOutput(string) == setSetting("setOutput", string, K_Output, StrVal(string))

getError == getSetting("getError", K_Error, "EmptySetting")
setError(string) == setSetting("setError", string, K_Error, StrVal(string))

getLog == getSetting("getLog", K_Log, "EmptySetting")
setLog(string) == setSetting("setLog", string, K_Log, StrVal(string))

getRequirements == getSetting("getRequirements", K_Requirements, "EmptySetting")
setRequirements(string) ==
    setSetting("setRequirements", string, K_Requirements, StrVal(string))

\* Job.getMatlabLock: "matlab" in self._settings["concurrency_limits"].lower()
getMatlabLock ==
    /\ pc = "idle"
    /\ UNCHANGED proc
    /\ last' = IF DictHas(settings, K_concurrency_limits)
               THEN Outcome("getMatlabLock", "",
                            <<BoolVal(Contains(Lower(DictGet(settings, K_concurrency_limits).str),
                                               <<"m","a","t","l","a","b">>))>>, 0, <<>>, 0)
               ELSE Outcome("getMatlabLock", "EmptySetting", <<>>, 0, <<>>, 0)
    /\ ClearWait
    /\ UNCHANGED <<settings, submitLinesSoFar, executablePath, cluster, maxPollTime, pc>>

\* Job.setMatlabLock(boolean): sets the key to "MATLAB", or pops it when
\* boolean is false and the key is there
setMatlabLock(boolean) ==
    IF boolean
    THEN setSetting("setMatlabLock", boolean, K_concurrency_limits,
                    StrVal(<<"M","A","T","L","A","B">>))
    ELSE /\ pc = "idle"
         /\ UNCHANGED proc
         /\ settings' = IF DictHas(settings, K_concurrency_limits)
                        THEN DictPop(settings, K_concurrency_limits)
                        ELSE settings
         /\ last' = OutcomeOf("setMatlabLock", boolean, "", <<>>, 0, <<>>, 0)
         /\ ClearWait
         /\ UNCHANGED <<submitLinesSoFar, executablePath, cluster, maxPollTime, pc>>

getCPUNum == getSetting("getCPUNum", K_request_cpus, "EmptySetting")
setCPUNum(integer) == setIntSetting("setCPUNum", integer, K_request_cpus)

getRAM == getSetting("getRAM", K_request_memory, "EmptySetting")
setRAM(megabytes_int) == setIntSetting("setRAM", megabytes_int, K_request_memory)

getDiskSpace == getSetting("getDiskSpace", K_request_disk, "EmptySetting")
setDiskSpace(megabytes_int) == setIntSetting("setDiskSpace", megabytes_int, K_request_disk)

getTransferFiles == getSetting("getTransferFiles", K_should_transfer_files, "EmptySetting")
setTransferFiles(string) ==
    setSetting("setTransferFiles", string, K_should_transfer_files, StrVal(string))

\* reads the key "when_to_transfer_ouput"
getWhenTransferOutput ==
    getSetting("getWhenTransferOutput", K_when_to_transfer_ouput, "EmptySetting")
setWhenTransferOutput(string) ==
    setSetting("setWhenTransferOutput", string, K_when_to_transfer_output, StrVal(string))

\* reads the key "Input"
getTransferExecutable == getSetting("getTransferExecutable", K_Input, "EmptySetting")
\* "if type(boolean) != bool: raise TypeError"
setTransferExecutable(boolean) ==
    IF "bool" \notin DOMAIN boolean
    THEN noEffect("setTransferExecutable", boolean, "TypeError")
    ELSE setSetting("setTransferExecutable", boolean, K_transfer_executable,
                    BoolVal(boolean.bool))

getNotification == getSetting("getNotification", K_notification, "EmptySetting")
setNotification(string) ==
    setSetting("setNotification", string, K_notification, StrVal(string))

getEmail == getSetting("getEmail", K_notify_user, "EmptySetting")
\* Job.setEmail: a non-empty string is stored; for None or "" (both <<>>) the
\* address of the mail map is, when "cat <mail map>" exits 0
setEmail(string, mailMapStatus) ==
    IF string # <<>>
    THEN setSetting("setEmail", string, K_notify_user, StrVal(string))
    ELSE IF mailMapStatus = 0
    THEN setSetting("setEmail", string, K_notify_user, StrVal(MappedEmail))
    ELSE noEffect("setEmail", string, "")

----------------------------------------------------------------------------
(* Job: submit, poll, status, wait *)

\* re.search("(cluster )(\d+)", msg): the start positions of a match
ClusterMatches(msg) ==
    { i \in 1..Len(msg) :
        /\ StartsAt(msg, <<"c","l","u","s","t","e","r"," ">>, i)
        /\ i + 8 <= Len(msg)
        /\ IsDigit(msg[i + 8]) }

\* the longest run of digits of s that starts at position i (\d+ is greedy)
RECURSIVE DigitRun(_, _)
DigitRun(s, i) == IF i <= Len(s) /\ IsDigit(s[i]) THEN <<s[i]>> \o DigitRun(s, i + 1)
                  ELSE <<>>

\* mutant: the number of the last match instead of the first
clusterStrLast(msg) ==
    LET final == CHOOSE i \in ClusterMatches(msg) : \A j \in ClusterMatches(msg) : i >= j
    IN  DigitRun(msg, final + 8)

\* clusterRE.group(2): re.search returns the leftmost match
clusterStr(msg) ==
    LET first == CHOOSE i \in ClusterMatches(msg) : \A j \in ClusterMatches(msg) : i <= j
    IN  DigitRun(msg, first + 8)

\* mutant: only a negative exit code counts as a failure
submitFailedNegative(retval) == retval < 0

\* Job.submit: "if retval != 0"
submitFailed(retval) == retval # 0

\* Job.submit, given what condor_submit exits with and replies
submit(retval, msg) ==
    /\ pc = "idle"
    /\ UNCHANGED proc
    /\ LET allLines == generateSubmitString(submitLinesSoFar, settings)
       IN  /\ NumLines(allLines) <= MaxLines
           /\ settings' = clearedSettings(settings, TRUE)
           /\ submitLinesSoFar' = updatedLines(submitLinesSoFar, allLines, TRUE)
           /\ IF submitFailed(retval)
              THEN /\ last' = Outcome("submit", "", <<>>, 0, << <<retval, msg>> >>,
                                      Len(settings))
                   /\ UNCHANGED cluster
              ELSE IF ClusterMatches(msg) = {}
              THEN /\ last' = Outcome("submit", "BadFormatError", <<>>, 0,
                                      << <<retval, msg>> >>, Len(settings))
                   /\ UNCHANGED cluster
              ELSE /\ cluster' = StrToInt(clusterStr(msg))
                   /\ last' = Outcome("submit", "", <<StrToInt(clusterStr(msg))>>, 0,
                                      << <<retval, msg>> >>, Len(settings))
    /\ ClearWait
    /\ UNCHANGED <<executablePath, maxPollTime, pc>>

\* mutant: the test is inverted
notSubmittedInverted(c) == c # None

\* poll, wait, status: "if self.cluster is None"
notSubmitted(c) == c = None

\* Job._checkQueue: "if self.cluster:" runs condor_q, else SubmissionError
checkQueueRuns(c) == c # None /\ c # 0

\* Job.poll: msg.count(str(self.cluster) + '.')
pollCount(c, msg) == Count(msg, IntToStr(c) \o <<".">>)

\* Job.poll, run against a condor_q that exits with retval and replies msg
poll(retval, msg) ==
    /\ pc = "idle"
    /\ UNCHANGED proc
    /\ IF notSubmitted(cluster)
       THEN last' = Outcome("poll", "SubmissionError", <<>>, 0, <<>>, 0)
       ELSE IF ~checkQueueRuns(cluster)
       THEN last' = Outcome("poll", "SubmissionError", <<>>, 0, << <<retval, msg>> >>, 0)
       ELSE IF retval # 0
       THEN \* str(mesg): the name mesg is not defined
            last' = Outcome("poll", "NameError", <<>>, 1, << <<retval, msg>> >>, 0)
       ELSE last' = Outcome("poll", "", <<pollCount(cluster, msg)>>, 1,
                            << <<retval, msg>> >>, 0)
    /\ ClearWait
    /\ UNCHANGED <<settings, submitLinesSoFar, executablePath, cluster, maxPollTime, pc>>

\* Job.status, run against a condor_q that exits with retval and replies msg;
\* the value returned is outputFn(msg), recorded as the msg handed to outputFn
status(retval, msg) ==
    /\ pc = "idle"
    /\ UNCHANGED proc
    /\ IF notSubmitted(cluster)
       THEN last' = Outcome("status", "SubmissionError", <<>>, 0, <<>>, 0)
       ELSE IF retval # 0
       THEN \* str(mesg): the name mesg is not defined
            last' = Outcome("status", "NameError", <<>>, 1, << <<retval, msg>> >>, 0)
       ELSE last' = Outcome("status", "", <<msg>>, 1, << <<retval, msg>> >>, 0)
    /\ ClearWait
    /\ UNCHANGED <<settings, submitLinesSoFar, executablePath, cluster, maxPollTime, pc>>

\* wait(): the loop condition "str(self.cluster) in msg.strip()"
stillListed(c, msg) == Contains(Strip(msg), IntToStr(c))

\* mutant: the interval is not capped
sleepTimeUncapped(curr, max) == curr

\* wait(): "sleep(min(currPollTime, self.maxPollTime))"
sleepTime(curr, max) == IF curr < max THEN curr ELSE max

\* the scheduler lists the cluster in fewer than MaxRounds replies of one wait()
ReplyAllowed(c, nPolled, msg) == nPolled + 1 < MaxRounds \/ ~stillListed(c, msg)

\* Job.wait up to its first queue query
waitBegin(retval, msg) ==
    /\ pc = "idle"
    /\ UNCHANGED proc
    /\ currPollTime' = InitialPollTime
    /\ sleeps' = <<>>
    /\ IF notSubmitted(cluster)
       THEN /\ last' = Outcome("wait", "SubmissionError", <<>>, 0, <<>>, 0)
            /\ polled' = <<>>
            /\ UNCHANGED pc
       ELSE IF ~checkQueueRuns(cluster)
       THEN /\ last' = Outcome("wait", "SubmissionError", <<>>, 0, <<>>, 0)
            /\ polled' = <<>>
            /\ UNCHANGED pc
       ELSE /\ ReplyAllowed(cluster, 0, msg)
            /\ polled' = << <<retval, msg>> >>
            /\ pc' = "wait"
            /\ last' = Outcome("wait", "running", <<>>, 1, <<>>, 0)
    /\ UNCHANGED <<settings, submitLinesSoFar, executablePath, cluster, maxPollTime>>

\* Job.wait: one evaluation of the loop condition and, if it holds, one
\* round of the loop body, ending with the next queue query
waitRound(retval, msg) ==
    /\ pc = "wait"
    /\ UNCHANGED proc
    /\ LET prev == polled[Len(polled)]
       IN  IF ~stillListed(cluster, prev[2])
           THEN \* the loop ends and wait() returns
                /\ pc' = "idle"
                /\ last' = Outcome("wait", "", <<>>, Len(polled), <<>>, 0)
                /\ UNCHANGED <<currPollTime, polled, sleeps>>
           ELSE IF prev[1] # 0
           THEN \* str(mesg): the name mesg is not defined
                /\ pc' = "idle"
                /\ last' = Outcome("wait", "NameError", <<>>, Len(polled), <<>>, 0)
                /\ UNCHANGED <<currPollTime, polled, sleeps>>
           ELSE /\ ReplyAllowed(cluster, Len(polled), msg)
                /\ sleeps' = Append(sleeps, sleepTime(currPollTime, maxPollTime))
                /\ currPollTime' = currPollTime + PollTimeStep
                /\ polled' = Append(polled, <<retval, msg>>)
                /\ last' = Outcome("wait", "running", <<>>, Len(polled) + 1, <<>>, 0)
                /\ UNCHANGED pc
    /\ UNCHANGED <<settings, submitLinesSoFar, executablePath, cluster, maxPollTime>>

----------------------------------------------------------------------------
(* Job: enqueueing a command *)

\* s.replace(old, ""): removes the non-overlapping occurrences, left to right
RECURSIVE Remove(_, _)
Remove(s, old) ==
    IF Len(s) = 0 THEN <<>>
    ELSE IF StartsAt(s, old, 1) THEN Remove(SubSeq(s, Len(old) + 1, Len(s)), old)
    ELSE <<s[1]>> \o Remove(Tail(s), old)

\* s.split(" "): the pieces between single spaces, empty pieces kept
RECURSIVE SplitFrom(_, _)
SplitFrom(s, piece) ==
    IF Len(s) = 0 THEN <<piece>>
    ELSE IF s[1] = " " THEN <<piece>> \o SplitFrom(Tail(s), <<>>)
    ELSE SplitFrom(Tail(s), Append(piece, s[1]))
Split(s) == SplitFrom(s, <<>>)

\* " ".join(pieces)
RECURSIVE Join(_)
Join(pieces) ==
    IF Len(pieces) = 0 THEN <<>>
    ELSE IF Len(pieces) = 1 THEN pieces[1]
    ELSE pieces[1] \o <<" ">> \o Join(Tail(pieces))

ShlexQuotes == {"'", "\""}
\* shlex.whitespace
ShlexWhitespace == {" ", "\t", "\r", "\n"}

\* shlex.split(s): the POSIX tokenizer's state machine, from position i in
\* state st (" " between tokens, "a" in a token, a quote, or the escape)
RECURSIVE ShlexRun(_, _, _, _, _, _, _)
ShlexRun(s, i, st, esc, tok, quoted, out) ==
    IF i > Len(s)
    THEN IF st = " " THEN [exc |-> "", tokens |-> out]
         ELSE IF st = "a"
         THEN [exc |-> "", tokens |-> IF tok # <<>> \/ quoted THEN Append(out, tok) ELSE out]
         ELSE \* no closing quotation, or no escaped character
              [exc |-> "ValueError", tokens |-> out]
    ELSE LET c == s[i] IN
         IF st = " "
         THEN IF c \in ShlexWhitespace THEN ShlexRun(s, i + 1, " ", esc, <<>>, FALSE, out)
              ELSE IF c = "\\" THEN ShlexRun(s, i + 1, "\\", "a", tok, quoted, out)
              ELSE IF c \in ShlexQuotes THEN ShlexRun(s, i + 1, c, esc, tok, quoted, out)
              ELSE ShlexRun(s, i + 1, "a", esc, <<c>>, quoted, out)
         ELSE IF st \in ShlexQuotes
         THEN IF c = st THEN ShlexRun(s, i + 1, "a", esc, tok, TRUE, out)
              ELSE IF c = "\\" /\ st = "\"" THEN ShlexRun(s, i + 1, "\\", st, tok, TRUE, out)
              ELSE ShlexRun(s, i + 1, st, esc, Append(tok, c), TRUE, out)
         ELSE IF st = "\\"
         THEN IF esc \in ShlexQuotes /\ c # "\\" /\ c # esc
              THEN ShlexRun(s, i + 1, esc, esc, tok \o <<"\\", c>>, quoted, out)
              ELSE ShlexRun(s, i + 1, esc, esc, Append(tok, c), quoted, out)
         ELSE \* st = "a"
              IF c \in ShlexWhitespace
              THEN IF tok # <<>> \/ quoted
                   THEN ShlexRun(s, i + 1, " ", esc, <<>>, FALSE, Append(out, tok))
                   ELSE ShlexRun(s, i + 1, " ", esc, <<>>, FALSE, out)
              ELSE IF c \in ShlexQuotes THEN ShlexRun(s, i + 1, c, esc, tok, quoted, out)
              ELSE IF c = "\\" THEN ShlexRun(s, i + 1, "\\", "a", tok, quoted, out)
              ELSE ShlexRun(s, i + 1, "a", esc, Append(tok, c), quoted, out)
ShlexSplit(s) == ShlexRun(s, 1, " ", "a", <<>>, FALSE, <<>>)

\* s without the text between single quotes
RECURSIVE OutsideSingleQuotes(_, _)
OutsideSingleQuotes(s, inside) ==
    IF Len(s) = 0 THEN <<>>
    ELSE IF s[1] = "'" THEN OutsideSingleQuotes(Tail(s), ~inside)
    ELSE IF inside THEN OutsideSingleQuotes(Tail(s), inside)
    ELSE <<s[1]>> \o OutsideSingleQuotes(Tail(s), inside)

\* mutant: a double quote between single quotes is let through
badQuotesUnprotected(command_line) ==
    Contains(Remove(OutsideSingleQuotes(command_line, FALSE), <<"\"", "\"">>), <<"\"">>)

\* mutant: any double quote is rejected, doubled or not
badQuotesAny(command_line) == Contains(command_line, <<"\"">>)

\* the test of Job.queue that raises BadQuotes, on the stripped command line
badQuotes(command_line) == Contains(Remove(command_line, <<"\"", "\"">>), <<"\"">>)

\* what "which <name>" replies when it finds the name
WhichReply(name) == <<"/","u","s","r","/","b","i","n","/">> \o name

\* Job._resolveExecutable: the exception it raises ("" for none) and the path
\* it returns, given the exit codes of "ls <string>" and "which <string>"
resolveExecutable(d, string, lsStatus, whichStatus) ==
    IF lsStatus # 0
    THEN IF whichStatus = 0
         THEN [exc |-> "", path |-> Strip(WhichReply(string))]
         ELSE \* the warning reads self.getExecutable()
              IF DictHas(d, K_Executable) THEN [exc |-> "", path |-> string]
              ELSE [exc |-> "RequiredSetting", path |-> string]
    ELSE [exc |-> "", path |-> string]

\* Job._resolveExecutable: the (exit code, reply) of the commands it runs
\* through the submit shell, "ls" and then, when ls fails, "which"
commandsRun(string, lsStatus, whichStatus) ==
    IF lsStatus # 0
    THEN << <<lsStatus, <<>>>>,
            <<whichStatus, IF whichStatus = 0 THEN WhichReply(string) ELSE <<>>>> >>
    ELSE << <<lsStatus, <<>>>> >>

\* Job.setExecutable after the path is resolved: the new _settings
setExecutableSettings(d, exePath, newPath) ==
    LET d1 == IF Contains(Remove(newPath, <<"\\", "/">>), <<"/">>)
              THEN DictSet(d, K_transfer_executable, BoolVal(FALSE))
              ELSE d
    IN  IF exePath = <<>>
        THEN DictSet(d1, K_Executable, StrVal(newPath))
        ELSE IF DictHas(d1, K_Executable) /\ DictGet(d1, K_Executable) # StrVal(newPath)
        THEN DictSet(d1, K_Executable, StrVal(newPath))
        ELSE d1

\* Job.setExecutable after the path is resolved: the new _executablePath
setExecutablePath(exePath, newPath) == IF exePath = <<>> THEN newPath ELSE exePath

\* mutant: a missing executable is reported as an optional attribute is
getExecutableAsOptional == getSetting("getExecutable", K_Executable, "EmptySetting")

getExecutable == getSetting("getExecutable", K_Executable, "RequiredSetting")

\* Job.setExecutable, given the exit codes of the ls and which commands it may run
setExecutable(string, lsStatus, whichStatus) ==
    /\ pc = "idle"
    /\ UNCHANGED proc
    /\ ClearWait
    /\ UNCHANGED <<submitLinesSoFar, cluster, maxPollTime, pc>>
    /\ LET resolved == resolveExecutable(settings, string, lsStatus, whichStatus)
           ran == commandsRun(string, lsStatus, whichStatus)
       IN  IF resolved.exc # ""
           THEN /\ last' = OutcomeOf("setExecutable", string, resolved.exc, <<>>, 0, ran, 0)
                /\ UNCHANGED <<settings, executablePath>>
           ELSE /\ settings' = setExecutableSettings(settings, executablePath, resolved.path)
                /\ executablePath' = setExecutablePath(executablePath, resolved.path)
                /\ last' = OutcomeOf("setExecutable", string, "", <<>>, 0, ran, 0)

getArguments == getSetting("getArguments", K_Arguments, "RequiredSetting")
\* Job.setArguments: stores the string between double quotes
setArguments(string) ==
    setSetting("setArguments", string, K_Arguments, StrVal(<<"\"">> \o string \o <<"\"">>))

\* Job.queue: "executable = args.pop(0); while executable.endswith('\\'):
\* executable += args.pop(0)"; the args left, or IndexError when they run out
RECURSIVE popExecutable(_, _)
popExecutable(executable, args) ==
    IF Len(executable) > 0 /\ executable[Len(executable)] = "\\"
    THEN IF Len(args) = 0 THEN [exc |-> "IndexError", args |-> args]
         ELSE popExecutable(executable \o args[1], Tail(args))
    ELSE [exc |-> "", args |-> args]

\* mutant: the repeat count is never written
queueLineBare(times) == <<"Queue">>

\* Job.queue: the Queue directive appended after the flush
queueLine(times) ==
    IF times # 1 THEN <<"Queue " \o Text(IntToStr(times))>>
    ELSE <<"Queue">>

\* Job.queue, given the exit codes of the ls and which commands it may run
queue(command_line_in, times, lsStatus, whichStatus) ==
    /\ pc = "idle"
    /\ UNCHANGED proc
    /\ ClearWait
    /\ UNCHANGED <<cluster, maxPollTime, pc>>
    /\ LET command_line == Strip(command_line_in)
           lexed == ShlexSplit(command_line)
           arg == <<command_line_in, times>>
       IN  IF badQuotes(command_line)
           THEN /\ last' = OutcomeOf("queue", arg, "BadQuotes", <<>>, 0, <<>>, 0)
                /\ UNCHANGED <<settings, submitLinesSoFar, executablePath>>
           ELSE IF lexed.exc # ""
           THEN /\ last' = OutcomeOf("queue", arg, lexed.exc, <<>>, 0, <<>>, 0)
                /\ UNCHANGED <<settings, submitLinesSoFar, executablePath>>
           ELSE IF Len(lexed.tokens) = 0
           THEN /\ last' = OutcomeOf("queue", arg, "IndexError", <<>>, 0, <<>>, 0)
                /\ UNCHANGED <<settings, submitLinesSoFar, executablePath>>
           ELSE
           LET resolved == resolveExecutable(settings, lexed.tokens[1], lsStatus, whichStatus)
               ran == commandsRun(lexed.tokens[1], lsStatus, whichStatus)
               d1 == setExecutableSettings(settings, executablePath, resolved.path)
               split == Split(command_line)
               popped == popExecutable(split[1], Tail(split))
               argStr == Join(popped.args)
               d2 == IF argStr # <<>>
                     THEN DictSet(d1, K_Arguments, StrVal(<<"\"">> \o argStr \o <<"\"">>))
                     ELSE d1
               allLines == generateSubmitString(submitLinesSoFar, d2)
           IN  IF resolved.exc # ""
               THEN /\ last' = OutcomeOf("queue", arg, resolved.exc, <<>>, 0, ran, 0)
                    /\ UNCHANGED <<settings, submitLinesSoFar, executablePath>>
               ELSE IF popped.exc # ""
               THEN /\ last' = OutcomeOf("queue", arg, popped.exc, <<>>, 0, ran, 0)
                    /\ settings' = d1
                    /\ executablePath' = setExecutablePath(executablePath, resolved.path)
                    /\ UNCHANGED submitLinesSoFar
               ELSE /\ NumLines(allLines) + 1 <= MaxLines
                    /\ settings' = clearedSettings(d2, TRUE)
                    /\ submitLinesSoFar' =
                          updatedLines(submitLinesSoFar, allLines, TRUE) \o queueLine(times)
                    /\ executablePath' = setExecutablePath(executablePath, resolved.path)
                    /\ last' = OutcomeOf("queue", arg, "", <<>>, 0, ran, Len(d2) + 1)

----------------------------------------------------------------------------
(* The specification *)

\* command lines a caller enqueues
CommandLines == { <<"w","h","o","a","m","i">> }
\* exit codes of "which <name>": the name is not on the search path
WhichExitCodes == { 1 }
\* repeat counts a caller enqueues with
TimesArgs == { 1, 2 }

Next ==
    \/ \E u \in UniverseArgs : setUniverse(u)
    \/ \E t \in MaxPollTimeArgs : setMaxPollTime(t)
    \/ \E update \in BOOLEAN : flush(update)
    \/ saveSubmitFile
    \/ \E c \in CommandLines, t \in TimesArgs, ls \in ExitCodes, wh \in WhichExitCodes :
          queue(c, t, ls, wh)
    \/ \E retval \in ExitCodes, msg \in SubmitReplies : submit(retval, msg)
    \/ \E retval \in ExitCodes, msg \in QueueReplies : poll(retval, msg)
    \/ \E retval \in ExitCodes, msg \in QueueReplies : status(retval, msg)
    \/ \E retval \in ExitCodes, msg \in QueueReplies : waitBegin(retval, msg)
    \/ \E retval \in ExitCodes, msg \in QueueReplies : waitRound(retval, msg)

Spec == Init /\ [][Next]_vars

----------------------------------------------------------------------------
(* The specification of enqueueing: queue() on every kind of command line,
   with both lookups of the executable free to succeed or fail *)

\* command lines a caller enqueues: without and with arguments, a path,
\* between a form feed and a unit separator, which strip() removes and shlex
\* would keep, and double quotes alone, doubled, inside single quotes and
\* unbalanced
QueueCommandLines ==
    { <<"w","h","o","a","m","i">>,
      <<"\f","w","h","o","a","m","i","">>,
      <<"/","b","i","n","/","e","c","h","o"," ","h","i">>,
      <<"e","c","h","o"," ","\"","a","\"">>,
      <<"e","c","h","o"," ","'","a","\"","b","'">>,
      <<" ","e","c","h","o"," ","\"","\""," ">>,
      <<"e","c","h","o"," ","\"","\"","\"">>,
      <<"e","c","h","o"," ","'">> }

QueueNext ==
    \/ \E c \in QueueCommandLines, t \in TimesArgs, ls \in ExitCodes, wh \in ExitCodes :
          queue(c, t, ls, wh)
    \/ \E update \in BOOLEAN : flush(update)

QueueSpec == Init /\ [][QueueNext]_vars

----------------------------------------------------------------------------
(* The specification of the required attributes: their setters and getters,
   and the queue() that writes them out and clears them *)

RequiredNext ==
    \/ \E e \in { <<"w","h","o","a","m","i">>, <<"/","b","i","n","/","e","c","h","o">> },
          ls \in ExitCodes, wh \in ExitCodes :
          setExecutable(e, ls, wh)
    \/ \E a \in { <<"h","i">> } : setArguments(a)
    \/ getUniverse
    \/ getExecutable
    \/ getArguments
    \/ \E c \in CommandLines, t \in TimesArgs, ls \in ExitCodes, wh \in ExitCodes :
          queue(c, t, ls, wh)

RequiredSpec == Init /\ [][RequiredNext]_vars

----------------------------------------------------------------------------
(* The specification of the attributes: every setter and getter of the
   universe and of the optional attributes, on a Job as constructed *)

\* setUniverse arguments: the seven universes, one that is none, and one
\* that differs from a universe by its case
AllUniverseArgs ==
    { <<"v","a","n","i","l","l","a">>, <<"s","t","a","n","d","a","r","d">>,
      <<"j","a","v","a">>, <<"s","c","h","e","d","u","l","e","r">>,
      <<"l","o","c","a","l">>, <<"g","r","i","d">>, <<"v","m">>,
      <<"m","a","r","s">>, <<"V","a","n","i","l","l","a">> }

SettingsNext ==
    \/ \E u \in AllUniverseArgs : setUniverse(u)
    \/ getUniverse
    \/ \E a \in { <<"/","t","m","p">> } : setInitialDirectory(a)
    \/ getInitialDirectory
    \/ \E a \in { <<"i","n">> } : setInput(a)
    \/ getInput
    \/ \E a \in { <<"o","u","t">> } : setOutput(a)
    \/ getOutput
    \/ \E a \in { <<"e","r","r">> } : setError(a)
    \/ getError
    \/ \E a \in { <<"l","o","g">> } : setLog(a)
    \/ getLog
    \/ \E a \in { <<"A","r","c","h"," ","=","="," ","\"","X","\"">> } : setRequirements(a)
    \/ getRequirements
    \/ \E a \in { StrVal(<<" ","2">>), StrVal(<<"-","2">>), StrVal(<<>>) } : setCPUNum(a)
    \/ getMatlabLock
    \/ \E boolean \in BOOLEAN : setMatlabLock(boolean)
    \/ getCPUNum
    \/ \E a \in { IntVal(2048), StrVal(<<"a">>) } : setRAM(a)
    \/ getRAM
    \/ \E a \in { IntVal(64) } : setDiskSpace(a)
    \/ getDiskSpace
    \/ \E a \in { <<"Y","E","S">> } : setTransferFiles(a)
    \/ getTransferFiles
    \/ \E a \in { <<"O","N","_","E","X","I","T">> } : setWhenTransferOutput(a)
    \/ getWhenTransferOutput
    \/ \E a \in { BoolVal(TRUE), BoolVal(FALSE), IntVal(1) } : setTransferExecutable(a)
    \/ getTransferExecutable
    \/ \E a \in { <<"N","e","v","e","r">> } : setNotification(a)
    \/ getNotification
    \/ \E a \in { <<>>, <<"a","@","b">> }, mailMapStatus \in ExitCodes : setEmail(a, mailMapStatus)
    \/ getEmail

SettingsSpec == Init /\ [][SettingsNext]_vars

----------------------------------------------------------------------------
(* The specification of a new Job: Job(universe) for every valid universe,
   with and without an entry in the mail map, and what the first calls make
   of its settings *)

\* Job(universe): the object after Job.__init__
Job(universe, mailMapStatus) ==
    /\ settings = JobInit(universe, mailMapStatus)
    /\ submitLinesSoFar = <<>>
    /\ executablePath = <<>>
    /\ cluster = None
    /\ maxPollTime = DefaultMaxPollTime
    /\ pc = "idle"
    /\ currPollTime = InitialPollTime
    /\ polled = <<>>
    /\ sleeps = <<>>
    /\ last = OutcomeOf("Job", universe, "", <<>>, 0, <<>>, 0)
    /\ proc = NoProcess

NewJobInit == \E universe \in validUniverses, mailMapStatus \in ExitCodes :
                 Job(universe, mailMapStatus)

NewJobNext ==
    \/ \E c \in CommandLines, t \in TimesArgs, ls \in ExitCodes, wh \in ExitCodes :
          queue(c, t, ls, wh)
    \/ \E update \in BOOLEAN : flush(update)
    \/ saveSubmitFile

NewJobSpec == NewJobInit /\ [][NewJobNext]_vars

----------------------------------------------------------------------------
(* Process: a child process, its pipes and its saved output *)

\* the variables of the Job, which no method of Process touches
jobVars == <<settings, submitLinesSoFar, executablePath, cluster, maxPollTime,
             pc, currPollTime, polled, sleeps>>

\* the command lines a caller starts: three that the shell runs itself (one
\* prints a line and exits 1, one prints nothing, one prints the byte 233,
\* which is no ASCII), and cat, a program that the shell forks and that
\* copies its input to its output
ChildRuns ==
    { [kind |-> "print", out |-> <<" ","a","\n">>, status |-> 1],
      [kind |-> "print", out |-> <<>>, status |-> 0],
      [kind |-> "print", out |-> <<"é">>, status |-> 0],
      [kind |-> "cat", out |-> <<>>, status |-> 0] }
\* strings a caller writes to the input of the process; the last is the
\* Kelvin sign, a character above chr(255)
PutArgs == { <<"x">>, <<"\f">>, <<"U+212A">> }
\* the process ids the system gives to a child
Pids == { 4711, 4712 }

\* Process.__init__: the child has its process id, both pipes are open,
\* nothing is communicated (Popen has _communication_started = False and no
\* _fileobj2output), no exit status is read yet, and self._savedOutput = ""
newProcess(child, pid) ==
    [made |-> TRUE, child |-> child, pid |-> pid, stdinOpen |-> TRUE, started |-> FALSE,
     fileobj2output |-> FALSE, returncode |-> None, retained |-> <<>>, written |-> <<>>,
     savedOutput |-> <<>>]

\* Process(args)
Process(child, pid) ==
    /\ proc' = newProcess(child, pid)
    /\ last' = Outcome("Process", "", <<>>, 0, <<>>, 0)
    /\ UNCHANGED jobVars

\* everything the child writes to its output until it exits
childOutput(p) == IF p.child.kind = "cat" THEN p.written ELSE p.child.out

\* subprocess.Popen.communicate(self): the first call flushes and closes the
\* input, makes the output buffers (_fileobj2output), reads the output until
\* the child exits and stores its exit status; a later call finds the pipes
\* closed and returns the output it retained.  On an input that was closed
\* before the first call, the flush raises ValueError before the buffers are
\* made and the call still sets _communication_started; every later call
\* then raises AttributeError where it looks for the buffers.
communicate(p) ==
    IF ~p.started
    THEN IF ~p.stdinOpen
         THEN [exc |-> "ValueError", out |-> <<>>, proc |-> [p EXCEPT !.started = TRUE]]
         ELSE [exc |-> "", out |-> childOutput(p),
               proc |-> [p EXCEPT !.stdinOpen = FALSE, !.started = TRUE,
                                  !.fileobj2output = TRUE,
                                  !.returncode = p.child.status,
                                  !.retained = childOutput(p)]]
    ELSE IF ~p.fileobj2output THEN [exc |-> "AttributeError", out |-> <<>>, proc |-> p]
         ELSE [exc |-> "", out |-> p.retained, proc |-> p]

\* subprocess.Popen.poll(self): the process after the call, which knows the
\* exit status when the child has exited by now; the call returns its
\* returncode
PopenPoll(p, exited) ==
    IF p.returncode = None /\ exited THEN [p EXCEPT !.returncode = p.child.status]
    ELSE p

\* whether the child can have exited by the time the parent looks: a cat
\* that no signal has hit runs until its input is closed, any other child
\* may or may not have exited
Exited(p) == IF p.child.kind = "cat" /\ p.stdinOpen /\ p.child.status >= 0
             THEN { FALSE } ELSE BOOLEAN

\* the holder of a Process closes the input of the child: p.stdin.close() on
\* the pipe that Process.__init__ opened, which Popen leaves to its caller.
\* The close flushes what put() wrote and raises BrokenPipeError when nothing
\* reads the pipe any more: the child has exited or was killed, and no cat
\* that it forked lives on.  The input is closed also when the flush raises.
stdin_close(exited) ==
    /\ proc.made
    /\ exited \in Exited(proc)
    /\ proc' = [proc EXCEPT !.stdinOpen = FALSE]
    /\ last' = Outcome("stdin.close",
                       IF /\ proc.stdinOpen
                          /\ proc.written # <<>>
                          /\ proc.child.kind # "cat"
                          /\ (proc.returncode # None \/ exited)
                       THEN "BrokenPipeError" ELSE "",
                       <<>>, 0, <<>>, 0)
    /\ UNCHANGED jobVars

\* Process.get and Process.getBytes: outBytes, which stays bytes() when
\* communicate raises ValueError
outBytes(p) == IF communicate(p).exc = "" THEN communicate(p).out ELSE <<>>

\* Process.get and Process.getBytes catch the ValueError of communicate and
\* nothing else: its AttributeError leaves the call
getExc(p) == IF communicate(p).exc = "AttributeError" THEN "AttributeError" ELSE ""

\* Process.get: retval = self._savedOutput + charString.strip()
getRetval(p) == p.savedOutput \o Strip(outBytes(p))

\* Process.get: the process after the call.  It has communicated; in the
\* except branch, unless ignoreEmpty, self.poll() has looked for the exit
\* status; and self._savedOutput = "" unless the call raised
afterGet(p, ignoreEmpty, exited) ==
    IF getExc(p) # "" THEN communicate(p).proc
    ELSE [ (IF communicate(p).exc = "ValueError" /\ ~ignoreEmpty
            THEN PopenPoll(communicate(p).proc, exited)
            ELSE communicate(p).proc) EXCEPT !.savedOutput = <<>> ]

\* Process.get and Process.getBytes: what the except branch prints to stderr,
\* each print() as the sequence of its arguments
getStderr(p, ignoreEmpty, exited) ==
    IF communicate(p).exc # "ValueError" \/ ignoreEmpty THEN <<>>
    ELSE << <<"get: end of output.  Pid", p.pid, "is probably dead.">> >>
         \o (IF PopenPoll(communicate(p).proc, exited).returncode = None THEN <<>>
             ELSE << <<"get: Yup, pid", p.pid, "died a while ago.",
                       "Its final words were the retval",
                       Text(IntToStr(PopenPoll(communicate(p).proc, exited).returncode))
                          \o ".">> >>)

\* Process.get(ignoreEmpty)
get(ignoreEmpty, exited) ==
    /\ proc.made
    /\ exited \in Exited(proc)
    /\ proc' = afterGet(proc, ignoreEmpty, exited)
    /\ last' = OutcomeOf("get", ignoreEmpty, getExc(proc),
                         IF getExc(proc) = "" THEN <<getRetval(proc)>> ELSE <<>>, 0,
                         getStderr(proc, ignoreEmpty, exited), 0)
    /\ UNCHANGED jobVars

\* Process.getBytes(ignoreEmpty): bytes(self._savedOutput, 'ascii') + outBytes
getBytesRetval(p) == [bytes |-> p.savedOutput \o outBytes(p)]

\* Process.getBytes: the AttributeError of communicate, or the
\* UnicodeEncodeError of bytes(self._savedOutput, 'ascii') on a saved output
\* with a character above chr(127)
getBytesExc(p) ==
    LET NonAscii == { "","","","","","","","","","","","","","","","",
                      "","","","","","","","","","","","","","","","",
                      " ","¡","¢","£","¤","¥","¦","§","¨","©","ª","«","¬","­","®","¯",
                      "°","±","²","³","´","µ","¶","·","¸","¹","º","»","¼","½","¾","¿",
                      "À","Á","Â","Ã","Ä","Å","Æ","Ç","È","É","Ê","Ë","Ì","Í","Î","Ï",
                      "Ð","Ñ","Ò","Ó","Ô","Õ","Ö","×","Ø","Ù","Ú","Û","Ü","Ý","Þ","ß",
                      "à","á","â","ã","ä","å","æ","ç","è","é","ê","ë","ì","í","î","ï",
                      "ð","ñ","ò","ó","ô","õ","ö","÷","ø","ù","ú","û","ü","ý","þ","ÿ" }
    IN  IF getExc(p) # "" THEN getExc(p)
        ELSE IF \E i \in 1..Len(p.savedOutput) : p.savedOutput[i] \in NonAscii
        THEN "UnicodeEncodeError" ELSE ""

\* Process.getBytes: the process after the call, which is as after get()
\* but keeps self._savedOutput when bytes() raised
afterGetBytes(p, ignoreEmpty, exited) ==
    IF getBytesExc(p) = "UnicodeEncodeError"
    THEN [afterGet(p, ignoreEmpty, exited) EXCEPT !.savedOutput = p.savedOutput]
    ELSE afterGet(p, ignoreEmpty, exited)

\* Process.getBytes(ignoreEmpty)
getBytes(ignoreEmpty, exited) ==
    /\ proc.made
    /\ exited \in Exited(proc)
    /\ proc' = afterGetBytes(proc, ignoreEmpty, exited)
    /\ last' = OutcomeOf("getBytes", ignoreEmpty, getBytesExc(proc),
                         IF getBytesExc(proc) = "" THEN <<getBytesRetval(proc)>> ELSE <<>>, 0,
                         getStderr(proc, ignoreEmpty, exited), 0)
    /\ UNCHANGED jobVars

\* Process.put: bytes(intInput) raises ValueError on a character above
\* chr(255), before the try; self.stdin.write raises ValueError on the closed
\* input, which put turns into TalkingToDeadError.  The write goes to the
\* buffer of the pipe (8192 bytes), which the strings of the model never
\* fill, so that it never reaches a child that has exited.
putExc(p, input) ==
    IF \E i \in 1..Len(input) : input[i] \in {"U+212A", "U+212B"} THEN "ValueError"
    ELSE IF ~p.stdinOpen THEN "TalkingToDeadError"
    ELSE ""

\* Process.put: the process after self.stdin.write(byteInput) on the open input
afterPut(p, input) == [p EXCEPT !.written = @ \o input]

\* Process.put: TalkingToDeadError(self.pid) carries the process id, which
\* ret holds
put(input) ==
    /\ proc.made
    /\ IF putExc(proc, input) = ""
       THEN /\ Len(proc.written) + Len(input) <= MaxWritten
            /\ proc' = afterPut(proc, input)
            /\ last' = OutcomeOf("put", input, "", <<>>, 0, <<>>, 0)
       ELSE /\ last' = OutcomeOf("put", input, putExc(proc, input),
                                 IF putExc(proc, input) = "TalkingToDeadError"
                                 THEN <<proc.pid>> ELSE <<>>, 0, <<>>, 0)
            /\ UNCHANGED proc
    /\ UNCHANGED jobVars

\* Process.finish: self._savedOutput += self.get(True), where the left side
\* is read before get(True) empties it; an exception of get(True) leaves
\* self._savedOutput as it was
finish ==
    /\ proc.made
    /\ IF getExc(proc) # ""
       THEN /\ proc' = afterGet(proc, TRUE, FALSE)
            /\ last' = Outcome("finish", getExc(proc), <<>>, 0, <<>>, 0)
       ELSE /\ Len(proc.savedOutput \o getRetval(proc)) <= MaxSaved
            /\ proc' = [afterGet(proc, TRUE, FALSE) EXCEPT
                           !.savedOutput = proc.savedOutput \o getRetval(proc)]
            /\ last' = Outcome("finish", "", <<>>, 0, <<>>, 0)
    /\ UNCHANGED jobVars

SIGTERM == 15
SIGKILL == 9

\* what a signal makes of the run of a child, which is the /bin/sh that
\* Popen(shell=True) starts.  The shell dies of the signal; a command it had
\* forked lives on: a cat still copies the input that communicate() flushes
\* to it, while a cat that the shell had not yet forked, or had replaced
\* itself with, writes nothing.  A child that can exit by itself (one that
\* prints, or a cat whose input is closed) may have exited before the signal
\* reached it and is then as it was; a child that prints dies before or after
\* it wrote its output.
\* A child that a signal has killed before, whose status is negative, is as
\* it was, also while poll() does not see it yet, with one exception: the
\* shell holds a SIGTERM back while it forks its command, and a SIGKILL that
\* arrives in that time ends it first.  The status of a cat that terminate()
\* has signalled is then that of the SIGKILL, with the cat forked or not.
\* The children that print are run by the shell itself and have no such
\* time; a SIGTERM after a SIGKILL changes nothing.
SignalRuns(p, sig) ==
    IF p.child.status < 0
    THEN { p.child }
         \cup (IF p.child.kind = "cat" /\ p.child.status = 0 - SIGTERM /\ sig = SIGKILL
               THEN { [kind |-> "print", out |-> <<>>, status |-> 0 - sig],
                      [kind |-> "cat", out |-> <<>>, status |-> 0 - sig] }
               ELSE {})
    ELSE IF p.child.kind = "cat"
    THEN { [kind |-> "print", out |-> <<>>, status |-> 0 - sig],
           [kind |-> "cat", out |-> <<>>, status |-> 0 - sig] }
         \cup (IF p.stdinOpen THEN {} ELSE { p.child })
    ELSE { p.child,
           [kind |-> "print", out |-> <<>>, status |-> 0 - sig],
           [kind |-> "print", out |-> p.child.out, status |-> 0 - sig] }

\* Process.terminate and Process.kill: subprocess.Popen.send_signal polls and
\* sends the signal unless the exit status is known
sendSignal(p, exited, run) ==
    IF PopenPoll(p, exited).returncode # None THEN PopenPoll(p, exited)
    ELSE [p EXCEPT !.child = run]

\* Process.__str__: "<Process (Running): args>" or "<Process (Retval=s):
\* args>" for the s that self.poll() returns; the action returns the text up
\* to the args, which are the command line of the child
__str__(exited) ==
    /\ proc.made
    /\ exited \in Exited(proc)
    /\ proc' = PopenPoll(proc, exited)
    /\ last' = Outcome("__str__", "",
                       <<IF PopenPoll(proc, exited).returncode = None
                         THEN "<Process (Running): "
                         ELSE "<Process (Retval="
                                 \o Text(IntToStr(PopenPoll(proc, exited).returncode)) \o "): ">>,
                       0, <<>>, 0)
    /\ UNCHANGED jobVars

\* Process.terminate
terminate(exited) ==
    /\ proc.made
    /\ exited \in Exited(proc)
    /\ \E run \in SignalRuns(proc, SIGTERM) : proc' = sendSignal(proc, exited, run)
    /\ last' = Outcome("terminate", "", <<>>, 0, <<>>, 0)
    /\ UNCHANGED jobVars

\* Process.kill
kill(exited) ==
    /\ proc.made
    /\ exited \in Exited(proc)
    /\ \E run \in SignalRuns(proc, SIGKILL) : proc' = sendSignal(proc, exited, run)
    /\ last' = Outcome("kill", "", <<>>, 0, <<>>, 0)
    /\ UNCHANGED jobVars

ProcessNext ==
    \/ \E child \in ChildRuns, pid \in Pids : Process(child, pid)
    \/ \E input \in PutArgs : put(input)
    \/ \E ignoreEmpty \in BOOLEAN, exited \in BOOLEAN : get(ignoreEmpty, exited)
    \/ \E ignoreEmpty \in BOOLEAN, exited \in BOOLEAN : getBytes(ignoreEmpty, exited)
    \/ finish
    \/ \E exited \in BOOLEAN : stdin_close(exited)
    \/ \E exited \in BOOLEAN : __str__(exited)
    \/ \E exited \in BOOLEAN : terminate(exited)
    \/ \E exited \in BOOLEAN : kill(exited)

ProcessSpec == Init /\ [][ProcessNext]_vars

----------------------------------------------------------------------------
(* Shell: running a command to its end, and running it interactively *)

\* what the caller passes to execute as inputStr: None, written <<>>, or a
\* string, written <<string>>
InputStrArgs == { <<>> } \cup { <<input>> : input \in PutArgs }

\* an execute that drains the process before it writes to it
executeRunDrainFirst(p, inputStr, returnBytes, exited) ==
    [exc |-> IF inputStr = <<>> THEN ""
             ELSE putExc(afterGet(p, FALSE, exited), inputStr[1]),
     s |-> IF returnBytes THEN getBytesRetval(p) ELSE getRetval(p),
     proc |-> afterGet(p, FALSE, exited)]

\* Shell.execute, from the new process p on: p.put(inputStr) unless inputStr
\* is None, then s = p.getBytes() or s = p.get(); an exception of one of
\* them leaves execute
executeRun(p, inputStr, returnBytes, exited) ==
    LET putE == IF inputStr = <<>> THEN "" ELSE putExc(p, inputStr[1])
        wrote == IF inputStr = <<>> THEN p ELSE afterPut(p, inputStr[1])
    IN  IF putE # "" THEN [exc |-> putE, s |-> <<>>, proc |-> p]
        ELSE [exc |-> IF returnBytes THEN getBytesExc(wrote) ELSE getExc(wrote),
              s |-> IF returnBytes THEN getBytesRetval(wrote) ELSE getRetval(wrote),
              proc |-> IF returnBytes THEN afterGetBytes(wrote, FALSE, exited)
                       ELSE afterGet(wrote, FALSE, exited)]

\* Shell.execute(commandString, inputStr, returnBytes) -> (p.poll(), s), on
\* the child that the full command starts; proc is its local p
execute(child, pid, inputStr, returnBytes, exited) ==
    LET run == executeRun(newProcess(child, pid), inputStr, returnBytes, exited)
        polled_ == PopenPoll(run.proc, TRUE)
    IN  /\ pc = "idle"
        /\ exited \in Exited(newProcess(child, pid))
        /\ proc' = IF run.exc = "" THEN polled_ ELSE run.proc
        /\ last' = OutcomeOf("execute", <<child, inputStr, returnBytes>>, run.exc,
                             IF run.exc = "" THEN <<polled_.returncode, run.s>> ELSE <<>>,
                             0, <<>>, 0)
        /\ UNCHANGED jobVars

\* the words executeInteractive takes for each of its four choices
InputChoices == { <<"i","n","p","u","t">>, <<"i">>, <<"i","n">>, <<"i","n","p">> }
OutputChoices == { <<"o","u","t","p","u","t">>, <<"o">>, <<"o","u","t">>,
                   <<"p","r","i","n","t">>, <<"p">> }
TerminateChoices == { <<"t","e","r","m","i","n","a","t","e">>, <<"t","e","r","m">>, <<"t">>,
                      <<"t","e">>, <<"t","e","r">> }
KillChoices == { <<"k","i","l","l">>, <<"k">>, <<"k","i">>, <<"k","i","l">> }

\* what the user types at the prompt
NeedInArgs == { <<"i","n","p","u","t">>, <<"O","u","t">>, <<"t">>, <<"K","I","L","L">>,
                <<"U+212A">>, <<"h","e","l","p">>, <<>> }

\* the variables of the Job except pc, which tells whether executeInteractive
\* is at its prompt
jobData == <<settings, submitLinesSoFar, executablePath, cluster, maxPollTime,
             currPollTime, polled, sleeps>>

\* Shell.executeInteractive: the condition of "while p.poll() is None", on
\* the process after the poll
stillRunning(p) == p.returncode = None

\* Shell.executeInteractive(commandString) up to its first prompt or, when
\* the loop is not entered, to its return; io is what it printed to stdout
executeInteractive(child, pid, exited, exitedLater) ==
    LET p == newProcess(child, pid)
        first == PopenPoll(p, exited)
        quick == first.returncode # None
        got == IF quick THEN afterGet(first, FALSE, exited) ELSE first
        atLoop == PopenPoll(got, exitedLater)
    IN  /\ pc = "idle"
        /\ exited \in Exited(p)
        /\ exitedLater \in Exited(got)
        /\ exited => exitedLater
        /\ IF quick /\ getExc(first) # ""
           THEN /\ proc' = got
                /\ pc' = "idle"
                /\ last' = OutcomeOf("executeInteractive", child, getExc(first), <<>>, 0,
                                     <<>>, 0)
           ELSE /\ proc' = atLoop
                /\ pc' = IF stillRunning(atLoop) THEN "prompt" ELSE "idle"
                /\ last' = OutcomeOf("executeInteractive", child, "", <<>>, 0,
                                     IF quick THEN <<getRetval(first)>> ELSE <<>>, 0)
        /\ UNCHANGED jobData

\* Shell.executeInteractive: one round of its loop, from the answer needIn
\* to the prompt to the next prompt or to the return; input is the answer to
\* "stdin: ", which only the choice of input asks for, run what a signal
\* makes of the child, io what the round printed to stdout.  An exception of
\* p.put or p.get leaves executeInteractive.
interactiveChoice(needIn, exited, exitedLater) ==
    /\ pc = "prompt"
    /\ \E run \in IF Lower(needIn) \in TerminateChoices THEN SignalRuns(proc, SIGTERM)
                  ELSE IF Lower(needIn) \in KillChoices THEN SignalRuns(proc, SIGKILL)
                  ELSE { proc.child },
          input \in IF Lower(needIn) \in InputChoices THEN PutArgs ELSE { <<>> } :
        LET choice == Lower(needIn)
            raised == IF choice \in InputChoices THEN putExc(proc, input)
                      ELSE IF choice \in OutputChoices THEN getExc(proc)
                      ELSE ""
            done == IF choice \in InputChoices
                    THEN (IF raised = "" THEN afterPut(proc, input) ELSE proc)
                    ELSE IF choice \in OutputChoices THEN afterGet(proc, FALSE, exited)
                    ELSE IF choice \in TerminateChoices \/ choice \in KillChoices
                    THEN sendSignal(proc, exited, run)
                    ELSE proc
            printed == IF choice \in InputChoices THEN <<>>
                       ELSE IF choice \in OutputChoices THEN <<getRetval(proc)>>
                       ELSE IF choice \in TerminateChoices \/ choice \in KillChoices THEN <<>>
                       ELSE <<"help">>
            atLoop == PopenPoll(done, exitedLater)
        IN  /\ exited \in Exited(proc)
            /\ exitedLater \in Exited(done)
            /\ exited => exitedLater
            /\ IF raised # ""
               THEN /\ proc' = done
                    /\ pc' = "idle"
                    /\ last' = OutcomeOf("interactiveChoice", <<needIn, input>>, raised,
                                         IF raised = "TalkingToDeadError"
                                         THEN <<proc.pid>> ELSE <<>>, 0, <<>>, 0)
               ELSE /\ choice \in InputChoices => Len(proc.written) + Len(input) <= MaxWritten
                    /\ proc' = atLoop
                    /\ pc' = IF stillRunning(atLoop) THEN "prompt" ELSE "idle"
                    /\ last' = OutcomeOf("interactiveChoice", <<needIn, input>>, "", <<>>, 0,
                                         printed, 0)
    /\ UNCHANGED jobData

ShellNext ==
    \/ \E child \in ChildRuns, pid \in Pids, inputStr \in InputStrArgs, returnBytes \in BOOLEAN,
          exited \in BOOLEAN :
          execute(child, pid, inputStr, returnBytes, exited)
    \/ \E child \in ChildRuns, pid \in Pids, exited \in BOOLEAN, exitedLater \in BOOLEAN :
          executeInteractive(child, pid, exited, exitedLater)
    \/ \E needIn \in NeedInArgs, exited \in BOOLEAN, exitedLater \in BOOLEAN :
          interactiveChoice(needIn, exited, exitedLater)

ShellSpec == Init /\ [][ShellNext]_vars

----------------------------------------------------------------------------
(* Properties *)

\* C1: while no submit() has succeeded (the cluster id is absent, and only a
\* submit() that returns a cluster number makes it present), poll(), wait()
\* and status() raise SubmissionError and issue no queue-status query.
C1_UnsubmittedRaisesSubmissionError ==
    [][ /\ (cluster = None /\ cluster' # None) =>
              /\ last'.op = "submit"
              /\ last'.exc = ""
              /\ last'.ret = <<cluster'>>
              /\ last'.io[1][1] = 0
        /\ (cluster = None /\ last'.op \in {"poll", "wait", "status"}) =>
              /\ last'.exc = "SubmissionError"
              /\ last'.queries = 0
              /\ polled' = <<>>
              /\ pc' = "idle" ]_vars

\* C1 witness: poll() has raised SubmissionError on a Job without cluster id
\* whose settings an earlier submit() or flush has already consumed
C1_Witness ==
    /\ cluster = None
    /\ last.op = "poll"
    /\ last.exc = "SubmissionError"
    /\ settings = <<>>
    /\ submitLinesSoFar # <<>>

\* C2: once assigned, the cluster id never changes, whatever is called next.
C2_ClusterImmutable == [][cluster # None => cluster' = cluster]_vars

\* the reply holds "cluster " directly followed by a digit
HasClusterNumber(msg) ==
    \E i \in 1..Len(msg) :
        StartsAt(msg, <<"c","l","u","s","t","e","r"," ">>, i)
        /\ i + 8 <= Len(msg) /\ IsDigit(msg[i + 8])

\* n is the number written after the first "cluster " of the reply that a
\* digit follows: its digits are msg[i+8..j], and no digit follows them
FirstClusterNumber(msg, n) ==
    \E i \in 1..Len(msg), j \in 1..Len(msg) :
        /\ StartsAt(msg, <<"c","l","u","s","t","e","r"," ">>, i)
        /\ i + 8 <= j
        /\ \A k \in (i + 8)..j : IsDigit(msg[k])
        /\ j = Len(msg) \/ ~IsDigit(msg[j + 1])
        /\ \A h \in 1..(i - 1) :
              ~(StartsAt(msg, <<"c","l","u","s","t","e","r"," ">>, h)
                /\ h + 8 <= Len(msg) /\ IsDigit(msg[h + 8]))
        /\ n = StrToInt(SubSeq(msg, i + 8, j))

\* C3: when condor_submit exits 0, submit() assigns and returns the number of
\* the first "cluster <digits>" of the reply; without such a match it raises
\* BadFormatError and the cluster id stays as it was.
C3_SubmitParsesFirstCluster ==
    [][ (last'.op = "submit" /\ last'.io[1][1] = 0) =>
            IF HasClusterNumber(last'.io[1][2])
            THEN /\ last'.exc = ""
                 /\ cluster' # None
                 /\ last'.ret = <<cluster'>>
                 /\ FirstClusterNumber(last'.io[1][2], cluster')
            ELSE /\ last'.exc = "BadFormatError"
                 /\ cluster' = cluster ]_vars

\* C3 witness: submit() returned 42 for a reply that names cluster 42 before cluster 9
C3_Witness ==
    /\ last.op = "submit"
    /\ last.io = << <<0, <<"c","l","u","s","t","e","r"," ","x"," ",
                         "c","l","u","s","t","e","r"," ","4","2"," ",
                         "c","l","u","s","t","e","r"," ","9">> >> >>
    /\ last.ret = <<42>>
    /\ cluster = 42

\* C4: when condor_submit exits non-zero, submit() returns None, raises
\* nothing and leaves the cluster id as it was (absent stays absent).
C4_FailedSubmitReturnsNone ==
    [][ (last'.op = "submit" /\ last'.io[1][1] # 0) =>
            /\ last'.exc = ""
            /\ last'.ret = <<>>
            /\ cluster' = cluster ]_vars

\* C4 witness: a submit() whose command exited 1 returned None on a Job
\* without cluster id, although the reply named a cluster
C4_Witness ==
    /\ last.op = "submit"
    /\ last.io[1][1] = 1
    /\ HasClusterNumber(last.io[1][2])
    /\ last.exc = ""
    /\ last.ret = <<>>
    /\ cluster = None

\* C5: on a Job with any assigned cluster id, 0 included, a poll() run against
\* a condor_q that exits 0 does not raise and returns the number of
\* occurrences of "<id>." in the reply.
C5_PollCountsForEveryCluster ==
    (last.op = "poll" /\ cluster # None /\ last.io[1][1] = 0) =>
        /\ last.exc = ""
        /\ last.ret = <<Count(last.io[1][2], IntToStr(cluster) \o <<".">>)>>

\* C6: on a submitted Job, a condor_q that exits non-zero makes poll() and
\* status() raise BadFormatError.
C6_QueryFailureRaisesBadFormat ==
    (last.op \in {"poll", "status"} /\ last.queries = 1 /\ last.io[1][1] # 0) =>
        last.exc = "BadFormatError"

\* C7: a wait() that issued a queue query which exited non-zero does not
\* return normally: it raises BadFormatError.
C7_WaitRaisesOnQueryFailure ==
    (last.op = "wait" /\ pc = "idle" /\ \E i \in 1..Len(polled) : polled[i][1] # 0) =>
        last.exc = "BadFormatError"

\* C8: on a submitted Job whose queue queries all exit 0, wait() returns, right
\* after the first reply that does not contain the cluster id, having issued
\* one query per reply that contains it plus that final one.
C8_WaitReturnsAtFirstUnlistedReply ==
    (last.op = "wait" /\ pc = "idle" /\ cluster # None
       /\ \A i \in 1..Len(polled) : polled[i][1] = 0) =>
        /\ last.exc = ""
        /\ Len(polled) >= 1
        /\ ~Contains(polled[Len(polled)][2], IntToStr(cluster))
        /\ \A i \in 1..(Len(polled) - 1) : Contains(polled[i][2], IntToStr(cluster))
        /\ last.queries = Len(polled)

\* C9: the k-th sleep of wait() lasts min(1 + 0.5 * (k - 1), maxPollTime), that
\* is min(2 + (k - 1), maxPollTime) half seconds, and there is one sleep
\* between every two consecutive queries.
C9_SleepIntervals ==
    /\ \A k \in 1..Len(sleeps) :
          sleeps[k] = IF 2 + (k - 1) < maxPollTime THEN 2 + (k - 1) ELSE maxPollTime
    /\ Len(polled) > 0 => Len(sleeps) = Len(polled) - 1

\* C9 witness: wait() has slept twice, the second time for the maximum of 1.0
\* where the uncapped interval is 1.5
C9_Witness ==
    /\ pc = "wait"
    /\ maxPollTime = 2
    /\ sleeps = <<2, 2>>
    /\ Len(polled) = 3

\* C10: a flush with update=True appends one "key = value" line per set
\* attribute, in the order of the dict, and leaves the dict empty; a flush of
\* an empty dict appends nothing.
C10_FlushAppendsAndClears ==
    [][ last'.op = "flush" =>
            /\ settings' = <<>>
            /\ Len(submitLinesSoFar') = Len(submitLinesSoFar) + Len(settings)
            /\ \A i \in 1..Len(submitLinesSoFar) :
                  submitLinesSoFar'[i] = submitLinesSoFar[i]
            /\ \A i \in 1..Len(settings) :
                  submitLinesSoFar'[Len(submitLinesSoFar) + i]
                      = settings[i][1] \o " = " \o Text(PyStr(settings[i][2]))
            /\ settings = <<>> => submitLinesSoFar' = submitLinesSoFar
            /\ last'.added = Len(settings) ]_vars

\* C10 witness: a flush of the emptied dict has appended nothing to the four
\* lines that the first flush of a new Job wrote
C10_Witness ==
    /\ last.op = "flush"
    /\ last.added = 0
    /\ settings = <<>>
    /\ submitLinesSoFar = <<"Universe = vanilla", "request_cpus = 1",
                            "request_memory = 1024", "request_disk = 32">>

\* the path that looking up the first token of the command line yields: the
\* token itself when ls finds it, else the reply of which when which finds
\* it, else the token itself
ResolvedFirstToken(command_line, io) ==
    LET token == ShlexSplit(Strip(command_line)).tokens[1]
    IN  IF io[1][1] = 0 THEN token
        ELSE IF io[2][1] = 0 THEN Strip(io[2][2])
        ELSE token

\* C11: the stanza that a successful queue() appends holds the line
\* "Executable = <resolved path of the first token>", on the first queue() of
\* a Job and on every later one.
C11_EnqueueWritesExecutable ==
    [][ (last'.op = "queue" /\ last'.exc = "") =>
            \E i \in (Len(submitLinesSoFar) + 1)..Len(submitLinesSoFar') :
                submitLinesSoFar'[i]
                    = "Executable = " \o Text(ResolvedFirstToken(last'.arg[1], last'.io)) ]_vars

\* the Queue directives that queue() can have written
QueueDirectives == {"Queue"} \cup { "Queue " \o Text(IntToStr(n)) : n \in TimesArgs }

\* the number of Queue directives among the lines of the text
NumQueueDirectives(text) == Cardinality({ i \in 1..Len(text) : text[i] \in QueueDirectives })

\* C12: a successful queue(command_line, times) adds exactly one Queue
\* directive, as the last line of the text: "Queue" when times = 1 and
\* "Queue <times>" otherwise; no other step changes the number of Queue
\* directives, which is zero on a new Job, so that it always equals the
\* number of successful queue() calls.
C12_OneQueueDirectivePerEnqueue ==
    /\ NumQueueDirectives(submitLinesSoFar) = 0
    /\ [][ IF last'.op = "queue" /\ last'.exc = ""
           THEN /\ NumQueueDirectives(submitLinesSoFar')
                      = NumQueueDirectives(submitLinesSoFar) + 1
                /\ submitLinesSoFar'[Len(submitLinesSoFar')]
                      = IF last'.arg[2] = 1 THEN "Queue"
                        ELSE "Queue " \o Text(IntToStr(last'.arg[2]))
           ELSE NumQueueDirectives(submitLinesSoFar')
                      = NumQueueDirectives(submitLinesSoFar) ]_vars

\* C12 witness: the second successful queue(), called with times = 2, has
\* written "Queue 2" as the last line, after the "Queue" of the first
C12_Witness ==
    /\ last.op = "queue"
    /\ last.exc = ""
    /\ last.arg[2] = 2
    /\ NumQueueDirectives(submitLinesSoFar) = 2
    /\ submitLinesSoFar[Len(submitLinesSoFar)] = "Queue 2"
    /\ \E i \in 1..(Len(submitLinesSoFar) - 1) : submitLinesSoFar[i] = "Queue"

\* C13: in the text that submit() passes to condor_submit (the submit text as
\* submit() leaves it) on a Job on which queue() has succeeded, no attribute
\* line comes after the last Queue directive: the text ends with a Queue
\* directive, whatever was called between the last queue() and submit().
C13_SubmittedTextEndsWithQueue ==
    (last.op = "submit" /\ NumQueueDirectives(submitLinesSoFar) > 0) =>
        submitLinesSoFar[Len(submitLinesSoFar)] \in QueueDirectives

\* s holds a run of consecutive double quotes of odd length that no double
\* quote precedes or follows: what is left of a double quote once every
\* doubled pair is taken out
HasUnpairedQuote(s) ==
    \E i \in 1..Len(s), j \in 1..Len(s) :
        /\ i <= j
        /\ \A k \in i..j : s[k] = "\""
        /\ i = 1 \/ s[i - 1] # "\""
        /\ j = Len(s) \/ s[j + 1] # "\""
        /\ (j - i + 1) % 2 = 1

\* C14: queue() raises BadQuotes exactly when the trimmed command line still
\* holds a double quote once the doubled pairs are removed; when it does, the
\* settings, the submit text and the executable path stay as they were and no
\* external command has been run.
C14_BadQuotesExactlyOnUnpairedQuote ==
    [][ last'.op = "queue" =>
            /\ (last'.exc = "BadQuotes") <=> HasUnpairedQuote(Strip(last'.arg[1]))
            /\ last'.exc = "BadQuotes" =>
                  /\ settings' = settings
                  /\ submitLinesSoFar' = submitLinesSoFar
                  /\ executablePath' = executablePath
                  /\ last'.io = <<>> ]_vars

\* C14 witness: after a successful queue(), queue() of echo """ (a doubled
\* pair and one more double quote) has raised BadQuotes
C14_Witness ==
    /\ last.op = "queue"
    /\ last.exc = "BadQuotes"
    /\ last.arg[1] = <<"e","c","h","o"," ","\"","\"","\"">>
    /\ last.io = <<>>
    /\ executablePath # <<>>
    /\ NumQueueDirectives(submitLinesSoFar) = 1

\* C15, as claimed: queue() of echo 'a"b', whose only double quote sits
\* between single quotes, does not raise BadQuotes, while queue() of echo "a"
\* does.
C15_SingleQuotedQuoteAccepted ==
    [][ last'.op = "queue" =>
            /\ last'.arg[1] = <<"e","c","h","o"," ","'","a","\"","b","'">>
                  => last'.exc # "BadQuotes"
            /\ last'.arg[1] = <<"e","c","h","o"," ","\"","a","\"">>
                  => last'.exc = "BadQuotes" ]_vars

\* C15, amended: single quotes do not protect a double quote: queue() of
\* echo 'a"b' raises BadQuotes just as queue() of echo "a" does, and neither
\* changes the Job.
C15_SingleQuotedQuoteRejected ==
    [][ (/\ last'.op = "queue"
         /\ last'.arg[1] \in { <<"e","c","h","o"," ","'","a","\"","b","'">>,
                               <<"e","c","h","o"," ","\"","a","\"">> }) =>
            /\ last'.exc = "BadQuotes"
            /\ settings' = settings
            /\ submitLinesSoFar' = submitLinesSoFar
            /\ executablePath' = executablePath ]_vars

\* C15 witness: queue() of echo 'a"b' on a new Job has raised BadQuotes
C15_Witness ==
    /\ last.op = "queue"
    /\ last.arg[1] = <<"e","c","h","o"," ","'","a","\"","b","'">>
    /\ last.exc = "BadQuotes"
    /\ submitLinesSoFar = <<>>
    /\ executablePath = <<>>

\* the universes that setUniverse is to accept
AcceptedUniverses ==
    { <<"v","a","n","i","l","l","a">>, <<"s","t","a","n","d","a","r","d">>,
      <<"j","a","v","a">>, <<"s","c","h","e","d","u","l","e","r">>,
      <<"l","o","c","a","l">>, <<"g","r","i","d">>, <<"v","m">> }

\* C16: setUniverse(x) returns and stores x under "Universe", leaving every
\* other entry alone, when x is one of the seven universes; for any other x
\* it raises InvalidUniverseError and leaves the settings, a Universe set
\* before included, as they were.
C16_SetUniverseAcceptsTheSeven ==
    [][ last'.op = "setUniverse" =>
            IF last'.arg \in AcceptedUniverses
            THEN /\ last'.exc = ""
                 /\ DictHas(settings', "Universe")
                 /\ DictGet(settings', "Universe") = [str |-> last'.arg]
                 /\ Len(settings') = Len(settings)
                 /\ \A i \in 1..Len(settings) :
                       settings[i][1] # "Universe" => settings'[i] = settings[i]
            ELSE /\ last'.exc = "InvalidUniverseError"
                 /\ settings' = settings ]_vars

\* C16 witness: setUniverse("Vanilla") has raised InvalidUniverseError on a
\* Job whose universe an earlier setUniverse("vm") set, and "vm" is still set
C16_Witness ==
    /\ last.op = "setUniverse"
    /\ last.arg = <<"V","a","n","i","l","l","a">>
    /\ last.exc = "InvalidUniverseError"
    /\ DictGet(settings, "Universe") = [str |-> <<"v","m">>]

\* the key under which the setter of each optional attribute stores it, by
\* the getter of the attribute
OwnSetterKey ==
    [ getInitialDirectory |-> "initialdir", getInput |-> "Input",
      getOutput |-> "Output", getError |-> "Error", getLog |-> "Log",
      getRequirements |-> "Requirements", getCPUNum |-> "request_cpus",
      getRAM |-> "request_memory", getDiskSpace |-> "request_disk",
      getTransferFiles |-> "should_transfer_files",
      getWhenTransferOutput |-> "when_to_transfer_output",
      getTransferExecutable |-> "transfer_executable",
      getNotification |-> "notification", getEmail |-> "notify_user" ]

\* C17: the getter of an optional attribute raises EmptySetting exactly when
\* the attribute is not set, and otherwise returns the value that the setter
\* of this attribute stored last.
C17_OptionalGetterReadsOwnSetter ==
    last.op \in DOMAIN OwnSetterKey =>
        IF DictHas(settings, OwnSetterKey[last.op])
        THEN /\ last.exc = ""
             /\ last.ret = <<DictGet(settings, OwnSetterKey[last.op])>>
        ELSE last.exc = "EmptySetting"

\* the key of each required attribute, by its getter
RequiredKey ==
    [ getUniverse |-> "Universe", getExecutable |-> "Executable",
      getArguments |-> "Arguments" ]

\* C18: the getter of a required attribute raises RequiredSetting (and never
\* EmptySetting) exactly when the attribute is absent from the settings, as it
\* is right after a flush, and otherwise returns the stored value, which for
\* the arguments is the string given to setArguments between double quotes.
C18_RequiredGetterRaisesRequiredSetting ==
    [][ /\ last'.op \in DOMAIN RequiredKey =>
              IF DictHas(settings', RequiredKey[last'.op])
              THEN /\ last'.exc = ""
                   /\ last'.ret = <<DictGet(settings', RequiredKey[last'.op])>>
              ELSE last'.exc = "RequiredSetting"
        /\ last'.op = "setArguments" =>
              DictGet(settings', "Arguments") = [str |-> <<"\"">> \o last'.arg \o <<"\"">>] ]_vars

\* C18 witness: getExecutable() has raised RequiredSetting right after a
\* queue() wrote the executable into the submit text and cleared the settings
C18_Witness ==
    /\ last.op = "getExecutable"
    /\ last.exc = "RequiredSetting"
    /\ settings = <<>>
    /\ executablePath # <<>>
    /\ submitLinesSoFar[Len(submitLinesSoFar)] \in QueueDirectives

\* C19: a queue() whose executable neither ls nor which finds raises nothing
\* and goes on with the name as given: it appends its Queue directive, and
\* on a Job without executable so far it records the name as the executable.
C19_UnresolvedNameIsUsedAsGiven ==
    [][ (/\ last'.op = "queue"
         /\ Len(last'.io) = 2
         /\ last'.io[1][1] # 0
         /\ last'.io[2][1] # 0) =>
            /\ last'.exc = ""
            /\ NumQueueDirectives(submitLinesSoFar')
                  = NumQueueDirectives(submitLinesSoFar) + 1
            /\ executablePath = <<>> =>
                  executablePath' = ShlexSplit(Strip(last'.arg[1])).tokens[1] ]_vars

\* C20: a get() that directly follows a get() on the same process, which has
\* exited and whose output that first get() returned, raises nothing, returns
\* the empty string and leaves the exit status as it was.
C20_SecondGetReturnsEmpty ==
    [][ (/\ last.op = "get"
         /\ last'.op = "get"
         /\ proc.returncode # None) =>
            /\ last'.exc = ""
            /\ last'.ret = << <<>> >>
            /\ proc'.returncode = proc.returncode ]_vars

\* C21: proc.started tells that a get(), getBytes() or finish() came before
\* on the process: each of them sets it, the construction clears it and
\* nothing else changes it.  A put() on a process on which one of them came
\* before, with whatever calls in between, raises TalkingToDeadError carrying
\* the process id, whatever the string it is given; and a put() on a process
\* whose input is open does not raise TalkingToDeadError.
C21_PutRaisesExactlyAfterDrain ==
    [][ /\ last'.op \in {"get", "getBytes", "finish"} => proc'.started
        /\ last'.op = "Process" => ~proc'.started /\ proc'.stdinOpen
        /\ last'.op \notin {"get", "getBytes", "finish", "Process"} =>
               proc'.started = proc.started
        /\ last'.op = "put" =>
               /\ proc.started =>
                      /\ last'.exc = "TalkingToDeadError"
                      /\ last'.ret = <<proc.pid>>
               /\ proc.stdinOpen => last'.exc # "TalkingToDeadError" ]_vars

\* C22: after a finish() the process has exited and its output is in the
\* saved output; the get() that follows returns exactly the saved output and
\* leaves the saved output empty.
C22_GetAfterFinishReturnsSavedOutput ==
    [][ (last.op = "finish" /\ last'.op = "get") =>
            /\ proc.returncode # None
            /\ last'.ret = <<proc.savedOutput>>
            /\ proc'.savedOutput = <<>> ]_vars

\* C23: execute(command, input) never raises the TalkingToDeadError of a
\* write that comes after the drain; when it returns, the exit code it
\* returns is not None and is the exit status of the child, which the process
\* holds and whose input is closed; and the output it returns is what the
\* child wrote after it was given the input: a cat returns the input.
C23_ExecuteWritesThenDrainsToTheEnd ==
    [][ last'.op = "execute" =>
           /\ last'.exc # "TalkingToDeadError"
           /\ last'.exc = "" =>
                 /\ last'.ret[1] # None
                 /\ last'.ret[1] = last'.arg[1].status
                 /\ proc'.returncode = last'.ret[1]
                 /\ ~proc'.stdinOpen
                 /\ (last'.arg[1].kind = "cat" /\ last'.arg[2] # <<>>) =>
                        last'.ret[2] = IF last'.arg[3] THEN [bytes |-> last'.arg[2][1]]
                                       ELSE Strip(last'.arg[2][1]) ]_vars

\* an execute('cat', "x") that returned (0, "x")
C23_Witness ==
    /\ last.op = "execute"
    /\ last.arg[1].kind = "cat"
    /\ last.arg[2] = << <<"x">> >>
    /\ last.ret = <<0, <<"x">>>>

\* the lines of the default resource requests in a submit description
DefaultLines == { "request_cpus = 1", "request_memory = 1024", "request_disk = 32" }

\* C24: a new Job has the requested universe and request_cpus = 1,
\* request_memory = 1024 and request_disk = 32 in its settings, no cluster id
\* and an empty text; and the first queue() on it, which finds the text
\* empty, writes the lines of these defaults and of the universe before its
\* Queue directive.
C24_NewJobDefaultsAreEmitted ==
    /\ DictHas(settings, K_Universe)
    /\ DictGet(settings, K_Universe) = StrVal(last.arg)
    /\ DictHas(settings, K_request_cpus)
    /\ DictGet(settings, K_request_cpus) = IntVal(1)
    /\ DictHas(settings, K_request_memory)
    /\ DictGet(settings, K_request_memory) = IntVal(1024)
    /\ DictHas(settings, K_request_disk)
    /\ DictGet(settings, K_request_disk) = IntVal(32)
    /\ cluster = None
    /\ submitLinesSoFar = <<>>
    /\ [][ (last'.op = "queue" /\ last'.exc = "" /\ submitLinesSoFar = <<>>) =>
              /\ \A line \in DefaultLines \cup
                               { "Universe = " \o Text(DictGet(settings, K_Universe).str) } :
                    \E i \in 1..(Len(submitLinesSoFar') - 1) : submitLinesSoFar'[i] = line
              /\ submitLinesSoFar'[Len(submitLinesSoFar')] \in QueueDirectives ]_vars

\* the first stanza of a Job("java"): it has the four lines and ends with
\* the directive
C24_Witness ==
    /\ last.op = "queue"
    /\ last.exc = ""
    /\ last.added = Len(submitLinesSoFar)
    /\ submitLinesSoFar[1] = "Universe = java"
    /\ \A line \in DefaultLines : \E i \in 1..Len(submitLinesSoFar) : submitLinesSoFar[i] = line
    /\ submitLinesSoFar[Len(submitLinesSoFar)] = "Queue 2"

\* C25: saveSubmitFile() leaves the settings, the text and the cluster id as
\* they are, whether or not a submit() has set the cluster id, and the text it
\* writes is the text accumulated so far followed by one "key = value" line
\* for every attribute that is set, and nothing else.
C25_SaveSubmitFileOnlyWrites ==
    [][ last'.op = "saveSubmitFile" =>
           /\ last'.exc = ""
           /\ settings' = settings
           /\ submitLinesSoFar' = submitLinesSoFar
           /\ cluster' = cluster
           /\ Len(last'.ret) = Len(submitLinesSoFar) + Len(settings)
           /\ \A i \in 1..Len(submitLinesSoFar) : last'.ret[i] = submitLinesSoFar[i]
           /\ \A i \in 1..Len(settings) :
                 last'.ret[Len(submitLinesSoFar) + i]
                    = settings[i][1] \o " = " \o Text(PyStr(settings[i][2])) ]_vars

\* a saveSubmitFile() after a submit() that set the cluster id, on a Job with
\* text and with an attribute set since
C25_Witness ==
    /\ last.op = "saveSubmitFile"
    /\ cluster # None
    /\ submitLinesSoFar # <<>>
    /\ settings # <<>>
    /\ Len(last.ret) = Len(submitLinesSoFar) + Len(settings)

\* the answers to the prompt that executeInteractive takes for a choice
RecognizedChoices == InputChoices \cup OutputChoices \cup TerminateChoices \cup KillChoices

\* C26: executeInteractive() is at its prompt exactly while the exit status
\* of the child is not known: it is left only once the child has exited and
\* prompts again as long as the child runs, whatever the answers to its
\* prompts; and an answer that is none of the four choices prints the help
\* text and nothing else, writes nothing to the child, leaves its input open
\* and sends it no signal, so that the process is as it was, up to the exit
\* status of a child that has exited meanwhile.
C26_InteractiveLoopUntilExit ==
    [][ last'.op \in {"executeInteractive", "interactiveChoice"} =>
           /\ pc' = "idle" => proc'.returncode # None
           /\ proc'.returncode = None => pc' = "prompt"
           /\ pc' = "prompt" => proc'.returncode = None
           /\ (last'.op = "interactiveChoice"
                  /\ Lower(last'.arg[1]) \notin RecognizedChoices) =>
                 /\ last'.exc = ""
                 /\ last'.io = <<"help">>
                 /\ proc'.written = proc.written
                 /\ proc'.stdinOpen = proc.stdinOpen
                 /\ proc'.child = proc.child
                 /\ proc' \in { proc, [proc EXCEPT !.returncode = proc.child.status] } ]_vars

\* C27: a stanza is sent in at most one successful submission.  submit()
\* sends the text it stores in submitLinesSoFar; so a successful submit()
\* that directly follows a successful submit(), with nothing enqueued in
\* between, sends no stanza: its text holds no Queue directive.
C27_SubmittedStanzasAreNotResent ==
    [][ (/\ last.op = "submit"
         /\ last.ret # <<>>
         /\ last'.op = "submit"
         /\ last'.ret # <<>>) =>
            NumQueueDirectives(submitLinesSoFar') = 0 ]_vars

\* C28: wait() and poll() agree on every reply of a condor_q that exited 0:
\* wait(), looking at the reply it got last, ends its loop and returns
\* exactly when poll() returns 0 on that reply, that is when the reply holds
\* no "<id>.".
C28_WaitEndsExactlyWherePollReturnsZero ==
    [][ (/\ pc = "wait"
         /\ last'.op = "wait"
         /\ polled[Len(polled)][1] = 0) =>
            ((pc' = "idle" /\ last'.exc = "")
               <=> Count(polled[Len(polled)][2], IntToStr(cluster) \o <<".">>) = 0) ]_vars

\* C29: finish() is idempotent: a finish() that directly follows a finish()
\* changes neither the saved output nor what the next get() returns.
C29_FinishIsIdempotent ==
    [][ (last.op = "finish" /\ last'.op = "finish") =>
            /\ proc'.savedOutput = proc.savedOutput
            /\ getRetval(proc') = getRetval(proc) ]_vars

====
